---- MODULE Spec2Model ----
(***************************************************************************)
(* Model of the lake-sandbox repartitioning pipeline:                      *)
(*   phase 1  reorganize_by_parcel_chunks  (reorg_pattern/reorganize)      *)
(*   phase 2  convert_to_delta_lake        (reorg_pattern/delta)           *)
(*   phase 3  optimize_all_delta_tables    (reorg_pattern/delta)           *)
(*   reorg(phase)                          (reorg_pattern/reorganization)  *)
(*   run_full_pipeline                     (pipeline/main_pipeline.py)     *)
(*   validate_delta_tables and cross-validation (validator)                *)
(* Rows are (parcel_id, date) pairs; a parquet file or a table partition   *)
(* is a bag of rows (a function from pairs to their multiplicity).         *)
(***************************************************************************)
EXTENDS Integers, Sequences, FiniteSets, TLC

\* ---------------------------------------------------------------- bounds
NumParcels == 2
NumDates == 2
MaxChunkSize == 2
MaxChunks == 2
MaxFaults == 1
MaxUniqueParcels == 10
MaxUniqueDates == 5
MaxSpan == 10
MaxInterval == 4
MaxPool == 4
MaxListLen == 3
NumTiles == 2

Parcels == 1..NumParcels
Dates == 1..NumDates
Pairs == Parcels \X Dates

VARIABLES
  srcFiles,    \* the raw parquet files under input_dir, in rglob order
  organized,   \* output_dir: chunk directory name -> state of its data.parquet
  table,       \* delta_dir/parcel_data: the managed table
  pc,          \* which phase function is executing ("idle" between calls)
  p1,          \* locals of the running reorganize_by_parcel_chunks call
  p2,          \* locals of the running convert_to_delta_lake call
  prev1,       \* arguments of the reorganize_by_parcel_chunks call that returned last,
               \* kept until another phase is called
  ret2,        \* how the last convert_to_delta_lake call ended
  vres,        \* result of the last validate_partitioned_delta_table call
  faults,      \* number of raised exceptions so far
  dirs,        \* which of input_dir, output_dir and delta_dir exist
  orch,        \* locals of the running reorg(phase) call
  pipe,        \* locals of the running run_full_pipeline call
  calc,        \* statistics row of the table and the completeness computed from it
  gen          \* arguments and results of the generator's date utilities, and
               \* the tiles of the raw files it wrote, in rglob order

vars == <<srcFiles, organized, table, pc, p1, p2, prev1, ret2, vres, faults,
          dirs, orch, pipe, calc, gen>>

\* ------------------------------------------------------------ bags of rows
EmptyBag == [pr \in Pairs |-> 0]

BagSize(b) == LET RECURSIVE Sum(_)
                  Sum(S) == IF S = {} THEN 0
                            ELSE LET x == CHOOSE x \in S : TRUE
                                 IN b[x] + Sum(S \ {x})
              IN Sum(Pairs)

\* SELECT DISTINCT (parcel_id, date): the set of pairs that occur
DistinctPairs(b) == {pr \in Pairs : b[pr] > 0}

\* SELECT DISTINCT parcel_id
DistinctParcels(b) == {pr[1] : pr \in DistinctPairs(b)}

\* read_parquet('input_dir/**/*.parquet'): the rows of all raw files together
AllRows == [pr \in Pairs |->
              Cardinality({i \in 1..Len(srcFiles) : pr \in srcFiles[i]})]

\* ------------------------------------------------------- chunk identifiers
\* f"{chunk_id:02d}": decimal digits, zero padded to width two
RECURSIVE DigitsOf(_)
DigitsOf(n) == IF n < 10 THEN <<n>> ELSE Append(DigitsOf(n \div 10), n % 10)

Fmt02(n) == IF n < 10 THEN <<0, n>> ELSE DigitsOf(n)

\* f"parcel_chunk={chunk_id:02d}": a directory name is <<prefix, digits>>
get_chunk_directory_name(chunk_id) == <<"parcel_chunk=", Fmt02(chunk_id)>>

\* chunk_name.split("=")[1]
extract_partition_id(chunk_name) == chunk_name[2]

\* f"parcel_chunk={partition_id}"
format_partition_name(partition_id) == <<"parcel_chunk=", partition_id>>

\* str ordering of digit strings
RECURSIVE DigitsLess(_, _)
DigitsLess(a, b) ==
  IF a = <<>> THEN b # <<>>
  ELSE IF b = <<>> THEN FALSE
  ELSE IF Head(a) # Head(b) THEN Head(a) < Head(b)
  ELSE DigitsLess(Tail(a), Tail(b))

\* sorted(partitions): ascending str order of partition ids
RECURSIVE SortedIds(_)
SortedIds(S) ==
  IF S = {} THEN <<>>
  ELSE LET m == CHOOSE x \in S : \A y \in S \ {x} : DigitsLess(x, y)
       IN <<m>> \o SortedIds(S \ {m})

\* variant of SortedNames that lists the directories in descending order
SortedNames_Descending(S) ==
  LET ids == SortedIds({extract_partition_id(n) : n \in S})
  IN [i \in 1..Len(ids) |-> format_partition_name(ids[Len(ids) + 1 - i])]

\* sorted(chunk_dirs): the names share their prefix, the ids decide
SortedNames(S) ==
  LET ids == SortedIds({extract_partition_id(n) : n \in S})
  IN [i \in 1..Len(ids) |-> format_partition_name(ids[i])]

\* ------------------------------------------------------------ file states
NoFile == [kind |-> "missing", rows |-> EmptyBag]
Corrupt == [kind |-> "corrupt", rows |-> EmptyBag]
DataFile(b) == [kind |-> "data", rows |-> b]

\* variant of validate_parquet_file that accepts a file without rows
validate_parquet_file_AcceptsEmpty(f) ==
  IF f.kind = "missing" THEN <<FALSE, 0, "File does not exist">>
  ELSE IF f.kind = "corrupt" THEN <<FALSE, 0, "read error">>
  ELSE <<TRUE, BagSize(f.rows), "">>

\* validate_parquet_file: <<is_valid, row_count, error>>
validate_parquet_file(f) ==
  IF f.kind = "missing" THEN <<FALSE, 0, "File does not exist">>
  ELSE IF f.kind = "corrupt" THEN <<FALSE, 0, "read error">>
  ELSE IF BagSize(f.rows) > 0 THEN <<TRUE, BagSize(f.rows), "">>
  ELSE <<FALSE, 0, "File is empty">>

\* variant of check_existing_chunk that skips any existing file unvalidated
check_existing_chunk_NoValidation(f, force) ==
  IF f.kind = "missing" \/ force THEN <<FALSE, "none">>
  ELSE <<TRUE, "skipped">>

\* check_existing_chunk: <<should_skip, stats_update>>
check_existing_chunk(f, force) ==
  IF f.kind = "missing" \/ force THEN <<FALSE, "none">>
  ELSE IF validate_parquet_file(f)[1] THEN <<TRUE, "skipped">>
  ELSE <<FALSE, "none">>

\* variant of verify_file_creation that only checks that the file exists
verify_file_creation_ExistsOnly(f) ==
  IF f.kind = "missing" THEN "failed" ELSE "created"

\* verify_file_creation: the counter to increment
verify_file_creation(f) ==
  IF f.kind = "missing" THEN "failed"
  ELSE IF validate_parquet_file(f)[1] THEN "created"
  ELSE "failed"

\* update_stats with a one-key update ("none" is the empty update {})
\* variant of update_stats that drops the "failed" update
update_stats_DropsFailed(stats, key) ==
  IF key \in {"none", "failed"} THEN stats ELSE [stats EXCEPT ![key] = @ + 1]

update_stats(stats, key) ==
  IF key = "none" THEN stats ELSE [stats EXCEPT ![key] = @ + 1]

\* ------------------------------------------------------ phase 1: reorganize
\* total_chunks = (sample_count + chunk_size - 1) // chunk_size
TotalChunks(sample_count, chunk_size) ==
  (sample_count + chunk_size - 1) \div chunk_size

\* the query engine's HASH(parcel_id): a fixed function of the key
HASH(parcel_id) == parcel_id

\* variant of ExtractChunk whose filter is <= instead of =
ExtractChunk_LessEq(total_chunks, chunk_id) ==
  [pr \in Pairs |-> IF HASH(pr[1]) % total_chunks <= chunk_id
                    THEN AllRows[pr] ELSE 0]

\* SELECT ... WHERE HASH(parcel_id) % total_chunks = chunk_id
ExtractChunk(total_chunks, chunk_id) ==
  [pr \in Pairs |-> IF HASH(pr[1]) % total_chunks = chunk_id
                    THEN AllRows[pr] ELSE 0]

ZeroStats1 == [total_chunks |-> 0, created |-> 0, skipped |-> 0, failed |-> 0]

\* what one loop iteration of phase 1 did: the file it found, whether the
\* COPY statement was executed and how it ended, the counter it incremented
NoLast1 == [old |-> NoFile, copied |-> FALSE, outcome |-> "none", key |-> "none"]

\* p1.visited, p1.written, p1.last and p1.before record what the call did:
\* the chunk ids the loop reached, those whose COPY statement completed, its
\* last iteration, and the output directory as the call found it
Idle1 == [force |-> FALSE, chunk_size |-> 0, total_chunks |-> 0, chunk_id |-> 0,
          stats |-> ZeroStats1, visited |-> <<>>, written |-> {},
          last |-> NoLast1, before |-> <<>>]

NoPrev1 == [valid |-> FALSE, chunk_size |-> 0]

\* with_organized and fail record the arguments and the failing query of
\* the call that returned the result
NoResult == [called |-> FALSE, valid |-> FALSE, total_tables |-> 0,
             issues |-> <<>>, error |-> FALSE,
             with_organized |-> FALSE, fail |-> "none"]

\* the input check of reorganize_by_parcel_chunks: the input directory does
\* not exist or holds no parquet file
MissingRawInput(d, files) == ~d.raw \/ Len(files) = 0

\* reorganize_by_parcel_chunks up to the loop: sample query and shard count
ReorgStart(chunk_size, force) ==
  /\ pc = "idle"
  /\ ~MissingRawInput(dirs, srcFiles)
  /\ TotalChunks(Cardinality(srcFiles[1]), chunk_size) <= MaxChunks
  /\ LET sample_count == Cardinality(srcFiles[1])
         total_chunks == TotalChunks(sample_count, chunk_size)
     IN p1' = [force |-> force, chunk_size |-> chunk_size,
               total_chunks |-> total_chunks, chunk_id |-> 0,
               stats |-> [ZeroStats1 EXCEPT !.total_chunks = total_chunks],
               visited |-> <<>>, written |-> {}, last |-> NoLast1,
               before |-> organized]
  /\ pc' = "reorg"
  /\ vres' = NoResult
  /\ ret2' = "none"
  /\ dirs' = [dirs EXCEPT !.organized = TRUE]
  /\ UNCHANGED <<srcFiles, organized, table, p2, prev1, faults>>

\* one iteration of "for chunk_id in range(total_chunks)"
\* outcome: what the COPY statement does: "ok", or it raises and leaves the
\* target untouched ("raise"), unreadable ("raise_partial") or removed
\* ("raise_removed")
ReorgChunk(outcome) ==
  /\ pc = "reorg"
  /\ p1.chunk_id < p1.total_chunks
  /\ LET name == get_chunk_directory_name(p1.chunk_id)
         old == IF name \in DOMAIN organized THEN organized[name] ELSE NoFile
         chk == check_existing_chunk(old, p1.force)
         new == IF chk[1] THEN old
                ELSE IF outcome = "ok"
                     THEN DataFile(ExtractChunk(p1.total_chunks, p1.chunk_id))
                ELSE IF outcome = "raise_partial" THEN Corrupt
                ELSE IF outcome = "raise_removed" THEN NoFile
                ELSE old
         key == IF chk[1] THEN chk[2]
                ELSE IF outcome = "ok" THEN verify_file_creation(new)
                ELSE "failed"
     IN /\ chk[1] => outcome = "ok"
        /\ outcome # "ok" => faults < MaxFaults
        /\ faults' = IF outcome = "ok" THEN faults ELSE faults + 1
        /\ organized' = [n \in DOMAIN organized \cup {name} |->
                           IF n = name THEN new ELSE organized[n]]
        /\ p1' = [p1 EXCEPT !.chunk_id = @ + 1,
                            !.stats = update_stats(@, key),
                            !.visited = Append(@, p1.chunk_id),
                            !.written = IF ~chk[1] /\ outcome = "ok"
                                        THEN @ \cup {p1.chunk_id} ELSE @,
                            !.last = [old |-> old, copied |-> ~chk[1],
                                      outcome |-> outcome, key |-> key]]
  /\ UNCHANGED <<srcFiles, table, pc, p2, prev1, ret2, vres, dirs>>

\* loop exhausted: conn.close() and return stats
ReorgFinish ==
  /\ pc = "reorg"
  /\ p1.chunk_id = p1.total_chunks
  /\ pc' = "idle"
  /\ prev1' = [valid |-> TRUE, chunk_size |-> p1.chunk_size]
  /\ p1' = Idle1
  /\ UNCHANGED <<srcFiles, organized, table, p2, ret2, vres, faults, dirs>>

\* ------------------------------------------------------ the managed table
\* table.parts: partition id -> the number of data files under
\* parcel_chunk=<id>/ in the current version and the rows they hold
NoTable == [kind |-> "absent", parts |-> <<>>]

\* len(dt.files())
FileCount(t) ==
  LET RECURSIVE Sum(_)
      Sum(S) == IF S = {} THEN 0
                ELSE LET x == CHOOSE x \in S : TRUE
                     IN t.parts[x].files + Sum(S \ {x})
  IN Sum(DOMAIN t.parts)

\* validate_delta_table: does the location open as a table with data files
validate_delta_table(t) == t.kind = "table" /\ FileCount(t) > 0

\* get_delta_partitions: ids parsed from "parcel_chunk=<id>/<file>" paths
get_delta_partitions(t) == {id \in DOMAIN t.parts : t.parts[id].files > 0}

\* variant of DeltaTableState.from_path that takes any table that opens as
\* existing, whatever its number of data files
DeltaTableState_AnyTable(t) ==
  IF t.kind # "table"
  THEN [exists |-> FALSE, existing_partitions |-> {},
        version |-> "None", file_count |-> "None"]
  ELSE [exists |-> TRUE, existing_partitions |-> get_delta_partitions(t),
        version |-> "dt.version()", file_count |-> FileCount(t)]

\* variant of DeltaTableState that never loads the partitions
DeltaTableState_NoPartitions(t) ==
  IF ~validate_delta_table(t)
  THEN [exists |-> FALSE, existing_partitions |-> {},
        version |-> "None", file_count |-> "None"]
  ELSE [exists |-> TRUE, existing_partitions |-> {},
        version |-> "dt.version()", file_count |-> FileCount(t)]

\* DeltaTableState.from_path; version is None or the value of dt.version()
DeltaTableState(t) ==
  IF ~validate_delta_table(t)
  THEN [exists |-> FALSE, existing_partitions |-> {},
        version |-> "None", file_count |-> "None"]
  ELSE [exists |-> TRUE, existing_partitions |-> get_delta_partitions(t),
        version |-> "dt.version()", file_count |-> FileCount(t)]

\* variant of check_skip_partition that does not look at force
check_skip_partition_IgnoresForce(table_state, chunk_name, force) ==
  IF ~table_state.exists THEN <<FALSE, "none">>
  ELSE IF extract_partition_id(chunk_name) \in table_state.existing_partitions
       THEN <<TRUE, "skipped">>
  ELSE <<FALSE, "none">>

\* check_skip_partition: <<should_skip, stats_update>>
check_skip_partition(table_state, chunk_name, force) ==
  IF force \/ ~table_state.exists THEN <<FALSE, "none">>
  ELSE IF extract_partition_id(chunk_name) \in table_state.existing_partitions
       THEN <<TRUE, "skipped">>
  ELSE <<FALSE, "none">>

\* SELECT DISTINCT ON (parcel_id, date) * FROM read_parquet(data_file)
DedupRows(b) == [pr \in Pairs |-> IF b[pr] > 0 THEN 1 ELSE 0]

\* variant of WriteMode that does not look at first_chunk
WriteMode_EveryChunk(first_chunk, table_state, force) ==
  IF ~table_state.exists \/ force THEN "overwrite" ELSE "append"

\* "overwrite" if not table_state.exists or force else "append", first chunk only
WriteMode(first_chunk, table_state, force) ==
  IF first_chunk
  THEN (IF ~table_state.exists \/ force THEN "overwrite" ELSE "append")
  ELSE "append"

\* write_deltalake(mode, partition_by=["parcel_chunk"]) of rows tagged part
\* variant of write_deltalake whose append replaces the table as well
write_deltalake_AppendReplaces(t, part, rows, mode) ==
  [kind |-> "table",
   parts |-> [id \in {part} |-> [files |-> 1, rows |-> rows]]]

write_deltalake(t, part, rows, mode) ==
  IF mode = "overwrite" \/ t.kind # "table"
  THEN [kind |-> "table",
        parts |-> [id \in {part} |-> [files |-> 1, rows |-> rows]]]
  ELSE [kind |-> "table",
        parts |-> [id \in DOMAIN t.parts \cup {part} |->
                     IF id # part THEN t.parts[id]
                     ELSE IF id \in DOMAIN t.parts
                          THEN [files |-> t.parts[id].files + 1,
                                rows |-> [pr \in Pairs |->
                                            t.parts[id].rows[pr] + rows[pr]]]
                          ELSE [files |-> 1, rows |-> rows]]]

\* verify_delta_streaming: the counter to increment
\* reopens: FALSE when DeltaTable(path) raises on the re-open
verify_delta_streaming(records_streamed, t, reopens) ==
  IF ~(reopens /\ validate_delta_table(t)) THEN "failed"
  ELSE IF records_streamed > 0 THEN "processed"
  ELSE "failed"

\* rows of the table WHERE parcel_chunk = part
PartitionRows(t, part) ==
  IF part \in DOMAIN t.parts THEN t.parts[part].rows ELSE EmptyBag

\* --------------------------------------------------------- phase 2: convert
ZeroStats2 == [total_chunks |-> 0, processed |-> 0, skipped |-> 0, failed |-> 0]

\* what one loop iteration of phase 2 did: the shard file it found, how the
\* iteration ended, the counter it incremented, the rows handed to
\* write_deltalake (if it was called) and the rows of the shard's partition
\* that the write left in place (none under overwrite)
NoLast2 == [chunk |-> <<>>, file |-> NoFile, outcome |-> "none", key |-> "none",
            called_write |-> FALSE, rows |-> EmptyBag, prior |-> EmptyBag]

\* p2.writes and p2.last record what the call did: the modes of the
\* write_deltalake calls it issued, in order, and its last iteration;
\* p2.resumes records how the preceding call over the same chunk files ended
Idle2 == [force |-> FALSE, chunk_dirs |-> <<>>, idx |-> 1, first_chunk |-> TRUE,
          table_state |-> DeltaTableState(NoTable), stats |-> ZeroStats2,
          writes |-> <<>>, last |-> NoLast2, resumes |-> "none"]

\* how a returned call is remembered: it processed some chunks and failed
\* others ("returned_mixed"), it was a call without force right after such a
\* call and had no failure ("returned_resumed"), or neither ("returned")
ReturnKind(force, resumes, stats) ==
  IF stats.processed >= 1 /\ stats.failed >= 1 THEN "returned_mixed"
  ELSE IF ~force /\ resumes = "returned_mixed" /\ stats.failed = 0
       THEN "returned_resumed"
  ELSE "returned"

\* what convert_to_delta_lake returns under dry_run
DryRunStats2(chunks) ==
  [ZeroStats2 EXCEPT !.total_chunks = Cardinality(DOMAIN chunks)]

\* variant of MissingChunkInput that does not look for chunk directories
MissingChunkInput_DirOnly(d, chunks) == ~d.organized

\* the input check of convert_to_delta_lake: the input directory does not
\* exist or holds no parcel_chunk= directory
MissingChunkInput(d, chunks) == ~d.organized \/ DOMAIN chunks = {}

\* convert_to_delta_lake up to the loop: list the chunk directories, take the
\* table snapshot; raises typer.Exit(1) when input_dir does not exist or
\* holds no chunk directory
ConvertStart(force) ==
  /\ pc = "idle"
  /\ IF MissingChunkInput(dirs, organized)
     THEN /\ ret2' = "exit"
          /\ UNCHANGED <<pc, p2, dirs>>
     ELSE /\ p2' = [force |-> force,
                    chunk_dirs |-> SortedNames(DOMAIN organized),
                    idx |-> 1, first_chunk |-> TRUE,
                    table_state |-> DeltaTableState(table),
                    stats |-> [ZeroStats2 EXCEPT
                                 !.total_chunks = Cardinality(DOMAIN organized)],
                    writes |-> <<>>, last |-> NoLast2,
                    resumes |-> IF ret2 \in {"returned_mixed",
                                             "returned_resumed"}
                                THEN ret2 ELSE "none"]
          /\ pc' = "delta"
          /\ ret2' = "running"
          /\ dirs' = [dirs EXCEPT !.delta = TRUE]
  /\ vres' = NoResult
  /\ prev1' = NoPrev1
  /\ UNCHANGED <<srcFiles, organized, table, p1, faults>>

\* one iteration of "for chunk_dir in sorted(chunk_dirs)"
\* outcome: "ok", or the step that raises: "query", "write", "verify"
ConvertChunk(outcome) ==
  /\ pc = "delta"
  /\ p2.idx <= Len(p2.chunk_dirs)
  /\ LET chunk_name == p2.chunk_dirs[p2.idx]
         data_file == organized[chunk_name]
         skip == check_skip_partition(p2.table_state, chunk_name, p2.force)
         partition_id == extract_partition_id(chunk_name)
         readable == data_file.kind = "data" /\ outcome # "query"
         df == DedupRows(data_file.rows)
         reaches_write == /\ data_file.kind # "missing"
                          /\ ~skip[1]
                          /\ readable
                          /\ BagSize(df) > 0
         write_mode == WriteMode(p2.first_chunk, p2.table_state, p2.force)
         written == reaches_write /\ outcome # "write"
         new_table == IF written
                      THEN write_deltalake(table, partition_id, df, write_mode)
                      ELSE table
         key == IF data_file.kind = "missing" THEN "failed"
                ELSE IF skip[1] THEN skip[2]
                ELSE IF ~readable THEN "failed"
                ELSE IF BagSize(df) = 0 THEN "failed"
                ELSE IF outcome = "write" THEN "failed"
                ELSE verify_delta_streaming(BagSize(df), new_table,
                                            outcome # "verify")
     IN /\ outcome = "query" => data_file.kind = "data" /\ ~skip[1]
        /\ outcome \in {"write", "verify"} => reaches_write
        /\ outcome # "ok" => faults < MaxFaults
        /\ faults' = IF outcome = "ok" THEN faults ELSE faults + 1
        /\ table' = new_table
        /\ p2' = [p2 EXCEPT
                    !.idx = @ + 1,
                    !.first_chunk = IF reaches_write THEN FALSE ELSE @,
                    !.stats = update_stats(@, key),
                    !.writes = IF reaches_write THEN Append(@, write_mode)
                               ELSE @,
                    !.last = [chunk |-> chunk_name, file |-> data_file,
                              outcome |-> outcome,
                              key |-> key, called_write |-> reaches_write,
                              rows |-> IF reaches_write THEN df ELSE EmptyBag,
                              prior |-> IF written /\ write_mode = "append"
                                        THEN PartitionRows(table, partition_id)
                                        ELSE EmptyBag]]
  /\ UNCHANGED <<srcFiles, organized, pc, p1, prev1, ret2, vres, dirs>>

\* loop exhausted: conn.close() and return stats
ConvertFinish ==
  /\ pc = "delta"
  /\ p2.idx > Len(p2.chunk_dirs)
  /\ pc' = "idle"
  /\ ret2' = ReturnKind(p2.force, p2.resumes, p2.stats)
  /\ p2' = Idle2
  /\ UNCHANGED <<srcFiles, organized, table, p1, prev1, vres, faults, dirs>>

\* -------------------------------------------------------- phase 3: optimize
ZeroStats3 == [total_tables |-> 0, optimized |-> 0, failed |-> 0]

\* dt.optimize.compact(): the files of every partition merged into one
Compact(t) ==
  [t EXCEPT !.parts = [id \in DOMAIN t.parts |->
                         [t.parts[id] EXCEPT
                            !.files = IF @ > 0 THEN 1 ELSE 0]]]

\* variant of optimize_delta_table that compacts under dry_run too
optimize_delta_table_IgnoresDryRun(t, dry_run, compacts) ==
  IF t.kind # "table" THEN <<FALSE, t>>
  ELSE IF ~compacts THEN <<FALSE, t>>
  ELSE <<TRUE, Compact(t)>>

\* optimize_delta_table: <<return value, table left behind>>
\* compacts: FALSE when dt.optimize.compact() raises
optimize_delta_table(t, dry_run, compacts) ==
  IF t.kind # "table" THEN <<FALSE, t>>
  ELSE IF dry_run THEN <<TRUE, t>>
  ELSE IF ~compacts THEN <<FALSE, t>>
  ELSE <<TRUE, Compact(t)>>

\* variant of optimize_all_delta_tables that reports a missing table as a
\* failed one
optimize_all_delta_tables_MissingFails(d, t, dry_run, compacts) ==
  IF ~d.delta \/ t.kind = "absent"
  THEN [stats |-> [total_tables |-> 1, optimized |-> 0, failed |-> 1],
        table |-> t]
  ELSE LET r == optimize_delta_table(t, dry_run, compacts)
       IN [stats |-> [total_tables |-> 1,
                      optimized |-> IF r[1] THEN 1 ELSE 0,
                      failed |-> IF r[1] THEN 0 ELSE 1],
           table |-> r[2]]

\* optimize_all_delta_tables: the statistics returned and the table left
optimize_all_delta_tables(d, t, dry_run, compacts) ==
  IF ~d.delta THEN [stats |-> ZeroStats3, table |-> t]
  ELSE IF t.kind = "absent" THEN [stats |-> ZeroStats3, table |-> t]
  ELSE LET r == optimize_delta_table(t, dry_run, compacts)
       IN [stats |-> [total_tables |-> 1,
                      optimized |-> IF r[1] THEN 1 ELSE 0,
                      failed |-> IF r[1] THEN 0 ELSE 1],
           table |-> r[2]]

\* ------------------------------------------------------------- validation
Issue(kind, part, n) == [kind |-> kind, part |-> part, n |-> n]

\* all rows of the table: delta_scan(delta_table_path)
TableRows(t) ==
  [pr \in Pairs |->
     LET RECURSIVE Sum(_)
         Sum(S) == IF S = {} THEN 0
                   ELSE LET x == CHOOSE x \in S : TRUE
                        IN t.parts[x].rows[pr] + Sum(S \ {x})
     IN Sum(DOMAIN t.parts)]

\* partition_parcels[partition]: SELECT DISTINCT parcel_id WHERE parcel_chunk = partition
PartitionParcels(t, part) == DistinctParcels(PartitionRows(t, part))

\* variant of OverlapIssues that never adds to all_partition_parcels
RECURSIVE OverlapIssues_NoUpdate(_, _, _, _)
OverlapIssues_NoUpdate(t, ids, i, all_partition_parcels) ==
  IF i > Len(ids) THEN <<>>
  ELSE LET parcel_ids == PartitionParcels(t, ids[i])
           overlap == all_partition_parcels \cap parcel_ids
           rest == OverlapIssues_NoUpdate(t, ids, i + 1, all_partition_parcels)
       IN IF overlap # {}
          THEN <<Issue("overlap", ids[i], Cardinality(overlap))>> \o rest
          ELSE rest

\* "Check for parcel overlaps between partitions": the loop over
\* partition_parcels.items(), filled in sorted(partitions) order
RECURSIVE OverlapIssues(_, _, _, _)
OverlapIssues(t, ids, i, all_partition_parcels) ==
  IF i > Len(ids) THEN <<>>
  ELSE LET parcel_ids == PartitionParcels(t, ids[i])
           overlap == all_partition_parcels \cap parcel_ids
           rest == OverlapIssues(t, ids, i + 1,
                                 all_partition_parcels \cup parcel_ids)
       IN IF overlap # {}
          THEN <<Issue("overlap", ids[i], Cardinality(overlap))>> \o rest
          ELSE rest

\* variant of Completeness whose quotient is not multiplied by 100
Completeness_Fraction(unique_parcels, unique_dates, unique_combinations) ==
  LET expected_combinations == unique_parcels * unique_dates
      scaled == unique_combinations * 10
      q == IF expected_combinations > 0 THEN scaled \div expected_combinations ELSE 0
      r == IF expected_combinations > 0 THEN scaled % expected_combinations ELSE 0
      up == 2 * r > expected_combinations
            \/ (2 * r = expected_combinations /\ q % 2 = 1)
  IN [expected_combinations |-> expected_combinations,
      missing_combinations |-> expected_combinations - unique_combinations,
      completeness_tenths |-> IF expected_combinations > 0
                              THEN (IF up THEN q + 1 ELSE q)
                              ELSE 0]

\* "Check completeness": expected_combinations, missing_combinations and
\* completeness_pct of a statistics row.  completeness_pct is kept as the
\* text that f"{completeness_pct:.1f}" prints, in tenths of a percent:
\* the float quotient rounded to the nearest tenth, ties to even (the
\* quotients of the rows considered here are exact at a tie)
Completeness(unique_parcels, unique_dates, unique_combinations) ==
  LET expected_combinations == unique_parcels * unique_dates
      scaled == unique_combinations * 1000
      q == IF expected_combinations > 0 THEN scaled \div expected_combinations ELSE 0
      r == IF expected_combinations > 0 THEN scaled % expected_combinations ELSE 0
      up == 2 * r > expected_combinations
            \/ (2 * r = expected_combinations /\ q % 2 = 1)
  IN [expected_combinations |-> expected_combinations,
      missing_combinations |-> expected_combinations - unique_combinations,
      completeness_tenths |-> IF expected_combinations > 0
                              THEN (IF up THEN q + 1 ELSE q)
                              ELSE 0]

\* the statistics row of stats_query for table t
TableStats(t) ==
  LET rows == TableRows(t)
  IN [unique_parcels |-> Cardinality(DistinctParcels(rows)),
      unique_dates |-> Cardinality({pr[2] : pr \in DistinctPairs(rows)}),
      unique_combinations |-> Cardinality(DistinctPairs(rows))]

\* missing_combinations = unique_parcels * unique_dates - unique_combinations
MissingCombinations(t) ==
  LET st == TableStats(t)
  IN Completeness(st.unique_parcels, st.unique_dates,
                  st.unique_combinations).missing_combinations

\* variant of IsValid that looks at overlap issues only
IsValid_OverlapOnly(issues) ==
  \A i \in 1..Len(issues) : issues[i].kind # "overlap"

\* valid = len(issues) <= 0
IsValid(issues) == Len(issues) <= 0

\* the organized_dir argument of the validators: None, or a directory
NoOrganizedDir == [given |-> FALSE, exists |-> FALSE, chunks |-> <<>>]
OrganizedDir == [given |-> TRUE, exists |-> dirs.organized, chunks |-> organized]

\* cross_validate_organized_chunk: <<is_valid, issue kind>>
\* query_ok: FALSE when the count queries raise
cross_validate_organized_chunk(t, partition, organized_chunk_file, query_ok) ==
  IF ~validate_parquet_file(organized_chunk_file)[1]
  THEN <<FALSE, "chunk_invalid">>
  ELSE IF ~query_ok THEN <<FALSE, "cross_query_failed">>
  ELSE LET org_dedup_count ==
             Cardinality(DistinctPairs(organized_chunk_file.rows))
           delta_count == BagSize(PartitionRows(t, partition))
       IN IF org_dedup_count # delta_count
          THEN <<FALSE, "count_mismatch">>
          ELSE <<TRUE, "none">>

\* variant of PartitionIssues that stops at the first issue
RECURSIVE PartitionIssues_StopAtFirst(_, _, _, _, _)
PartitionIssues_StopAtFirst(t, chunks, ids, i, query_ok) ==
  IF i > Len(ids) THEN <<>>
  ELSE LET name == format_partition_name(ids[i])
           chunk_file == IF name \in DOMAIN chunks THEN chunks[name] ELSE NoFile
           res == cross_validate_organized_chunk(t, ids[i], chunk_file, query_ok)
       IN IF chunk_file.kind = "missing"
          THEN <<Issue("chunk_not_found", ids[i], 0)>>
          ELSE IF ~res[1]
          THEN <<Issue(res[2], ids[i], 0)>>
          ELSE PartitionIssues_StopAtFirst(t, chunks, ids, i + 1, query_ok)

\* "Compare record counts for each partition": the loop over
\* sorted(partitions) of cross_validate_partitions_with_organized
RECURSIVE PartitionIssues(_, _, _, _, _)
PartitionIssues(t, chunks, ids, i, query_ok) ==
  IF i > Len(ids) THEN <<>>
  ELSE LET name == format_partition_name(ids[i])
           chunk_file == IF name \in DOMAIN chunks THEN chunks[name] ELSE NoFile
           res == cross_validate_organized_chunk(t, ids[i], chunk_file, query_ok)
           rest == PartitionIssues(t, chunks, ids, i + 1, query_ok)
       IN IF chunk_file.kind = "missing"
          THEN <<Issue("chunk_not_found", ids[i], 0)>> \o rest
          ELSE IF ~res[1]
          THEN <<Issue(res[2], ids[i], 0)>> \o rest
          ELSE rest

\* cross_validate_partitions_with_organized: the issues it returns
cross_validate_partitions_with_organized(t, partitions, organized_dir, query_ok) ==
  IF ~organized_dir.exists THEN <<>>
  ELSE IF DOMAIN organized_dir.chunks = {} THEN <<>>
  ELSE LET organized_partitions ==
             {extract_partition_id(n) : n \in DOMAIN organized_dir.chunks}
           missing_in_delta == organized_partitions \ partitions
           extra_in_delta == partitions \ organized_partitions
       IN PartitionIssues(t, organized_dir.chunks, SortedIds(partitions), 1,
                          query_ok)
          \o (IF missing_in_delta # {}
              THEN <<Issue("missing_in_delta", <<>>, Cardinality(missing_in_delta))>>
              ELSE <<>>)
          \o (IF extra_in_delta # {}
              THEN <<Issue("extra_in_delta", <<>>, Cardinality(extra_in_delta))>>
              ELSE <<>>)

\* validate_partitioned_delta_table
\* fail: "none", or the queries that raise: "stats" (a statistics query of
\* the function itself: the except branch) or "cross" (the count queries of
\* cross_validate_organized_chunk)
validate_partitioned_delta_table(t, organized_dir, fail) ==
  IF ~validate_delta_table(t)
  THEN [called |-> TRUE, valid |-> FALSE, total_tables |-> 1,
        issues |-> <<Issue("error", <<>>, 0)>>, error |-> TRUE,
        with_organized |-> organized_dir.given, fail |-> fail]
  ELSE IF fail = "stats"
  THEN [called |-> TRUE, valid |-> FALSE, total_tables |-> 0,
        issues |-> <<Issue("failed", <<>>, 0)>>, error |-> TRUE,
        with_organized |-> organized_dir.given, fail |-> fail]
  ELSE LET partitions == get_delta_partitions(t)
           missing == MissingCombinations(t)
           issues == OverlapIssues(t, SortedIds(partitions), 1, {})
                     \o (IF missing > 0
                         THEN <<Issue("missing", <<>>, missing)>> ELSE <<>>)
                     \o (IF organized_dir.given
                         THEN cross_validate_partitions_with_organized(
                                t, partitions, organized_dir, fail # "cross")
                         ELSE <<>>)
       IN [called |-> TRUE, valid |-> IsValid(issues),
           total_tables |-> Cardinality(partitions),
           issues |-> issues, error |-> FALSE,
           with_organized |-> organized_dir.given, fail |-> fail]

\* validate_delta_tables: delta_dir and delta_dir/parcel_data must exist
validate_delta_tables(d, t, organized_dir, fail) ==
  IF ~d.delta \/ t.kind = "absent"
  THEN [called |-> TRUE, valid |-> FALSE, total_tables |-> 0,
        issues |-> <<>>, error |-> TRUE,
        with_organized |-> organized_dir.given, fail |-> fail]
  ELSE validate_partitioned_delta_table(t, organized_dir, fail)

\* a call of validate_partitioned_delta_table(path) between phase calls
Validate(query_ok) ==
  /\ pc = "idle"
  /\ vres' = validate_partitioned_delta_table(
               table, NoOrganizedDir, IF query_ok THEN "none" ELSE "stats")
  /\ UNCHANGED <<srcFiles, organized, table, pc, p1, p2, prev1, ret2, faults, dirs>>

\* a call of validate_delta_tables(delta_dir, organized_dir=...)
ValidateTables(with_organized, fail) ==
  /\ pc = "idle"
  /\ fail = "cross" => with_organized
  /\ vres' = validate_delta_tables(
               dirs, table,
               IF with_organized THEN OrganizedDir ELSE NoOrganizedDir, fail)
  /\ UNCHANGED <<srcFiles, organized, table, pc, p1, p2, prev1, ret2, faults, dirs>>


\* the completeness step of validate_partitioned_delta_table on the
\* statistics row held in calc
CheckCompleteness ==
  /\ ~calc.computed
  /\ LET c == Completeness(calc.unique_parcels, calc.unique_dates,
                           calc.unique_combinations)
     IN calc' = [calc EXCEPT !.computed = TRUE,
                             !.expected_combinations = c.expected_combinations,
                             !.missing_combinations = c.missing_combinations,
                             !.completeness_tenths = c.completeness_tenths]
  /\ UNCHANGED <<srcFiles, organized, table, pc, p1, p2, prev1, ret2, vres,
                 faults, dirs>>

\* ---------------------------------------------------------- specification
\* no reorg(phase) call, no run_full_pipeline call, no statistics row
\* orch.ran, orch.before, orch.stats1, orch.stats2 and orch.optimize_stats
\* record what the call did: the phase functions it called, in order, the
\* directories as the phase in hand found them, and the values the three
\* phase functions returned
NoSnapshot == [dirs |-> [raw |-> FALSE, organized |-> FALSE, delta |-> FALSE],
               organized |-> <<>>, table |-> NoTable,
               raw |-> <<>>]

IdleOrch == [stage |-> "none", phase |-> "none", chunk_size |-> 0,
             force |-> FALSE, dry_run |-> FALSE, ran |-> <<>>,
             optimize_stats |-> ZeroStats3, caller |-> "none",
             before |-> NoSnapshot, stats1 |-> ZeroStats1,
             stats2 |-> ZeroStats2]

\* pipe.invoked, pipe.raised_in, pipe.at_raise, pipe.reorg_decision and
\* pipe.organized_found record what the run did: the stage functions it
\* called, the one that raised and the directories at that moment, whether
\* stage 2 ran or was skipped and the organized directory it looked at
IdlePipe == [stage |-> "none", skip_existing |-> FALSE, validate_only |-> FALSE,
             reorg_phase |-> "none", force |-> FALSE, chunk_size |-> 0,
             stages_completed |-> <<>>, overall_status |-> "none",
             error |-> FALSE, invoked |-> <<>>, raised_in |-> "none",
             at_raise |-> NoSnapshot, reorg_decision |-> "none",
             organized_found |-> <<>>, first_validation |-> NoResult]

NoCalc == [unique_parcels |-> 0, unique_dates |-> 0, unique_combinations |-> 0,
           computed |-> FALSE, expected_combinations |-> 0,
           missing_combinations |-> 0, completeness_tenths |-> 0]

\* gen.dates is the list handed to group_dates_by_year, gen.result what
\* parse_date_range returned, gen.groups the dictionary as the list of its
\* keys in insertion order and the list stored under each key
NoGen == [fn |-> "none", start_date |-> <<>>, end_date |-> <<>>,
          interval_days |-> 0, parsed |-> FALSE, result |-> <<>>,
          dates |-> <<>>, grouped |-> FALSE, keys |-> <<>>, groups |-> <<>>,
          listing |-> <<>>]

\* the raw data of a generated data set: the files of two tiles, the
\* second one overlapping the first or empty
SourceData ==
  {<<(1..i) \X Dates, (j..NumParcels) \X Dates>> :
     i \in 0..NumParcels, j \in {1, NumParcels + 1}}

\* the phase functions called directly, on raw data that exists
Init ==
  /\ srcFiles \in SourceData
  /\ organized = <<>>
  /\ table = NoTable
  /\ pc = "idle"
  /\ p1 = Idle1
  /\ p2 = Idle2
  /\ prev1 = NoPrev1
  /\ ret2 = "none"
  /\ vres = NoResult
  /\ faults = 0
  /\ dirs = [raw |-> TRUE, organized |-> FALSE, delta |-> FALSE]
  /\ orch = IdleOrch
  /\ pipe = IdlePipe
  /\ calc = NoCalc
  /\ gen = NoGen

Next ==
  \/ /\ \E chunk_size \in 1..MaxChunkSize, force \in BOOLEAN :
          ReorgStart(chunk_size, force)
     /\ UNCHANGED <<orch, pipe, calc, gen>>
  \/ /\ \E outcome \in {"ok", "raise", "raise_partial", "raise_removed"} :
          ReorgChunk(outcome)
     /\ UNCHANGED <<orch, pipe, calc, gen>>
  \/ ReorgFinish /\ UNCHANGED <<orch, pipe, calc, gen>>
  \/ /\ \E force \in BOOLEAN : ConvertStart(force)
     /\ UNCHANGED <<orch, pipe, calc, gen>>
  \/ /\ \E outcome \in {"ok", "query", "write", "verify"} : ConvertChunk(outcome)
     /\ UNCHANGED <<orch, pipe, calc, gen>>
  \/ ConvertFinish /\ UNCHANGED <<orch, pipe, calc, gen>>
  \/ /\ \E query_ok \in BOOLEAN : Validate(query_ok)
     /\ UNCHANGED <<orch, pipe, calc, gen>>

Spec == Init /\ [][Next]_vars

\* ------------------------------------------- specification of the validator
\* The validator is a function of the table and of the organized directory
\* it finds.  Tables and shard files are drawn from the data sets below: a
\* partition or shard holds some dates of one parcel or of all parcels.
ParcelSets == {{p} : p \in Parcels} \cup {Parcels}

RowSets == {ps \X (1..d) : ps \in ParcelSets, d \in (NumDates - 1)..NumDates}

BagOf(S, m) == [pr \in Pairs |-> IF pr \in S THEN m ELSE 0]

\* the partition ids and chunk directories "00" and "01"
FoundIds == {Fmt02(0), Fmt02(1)}

CorruptTable == [kind |-> "corrupt", parts |-> <<>>]

FoundTables ==
  {NoTable, CorruptTable}
  \cup {[kind |-> "table", parts |-> f] :
          f \in UNION {[I -> {[files |-> 1, rows |-> BagOf(S, 1)] : S \in RowSets}] :
                         I \in (SUBSET FoundIds) \ {{}}}}

\* m: how often the tiles of the raw data repeat a row
FoundChunks(m) ==
  UNION {[N -> {NoFile, Corrupt}
               \cup {DataFile(BagOf(S, m)) : S \in RowSets \cup {{}}}] :
           N \in SUBSET {format_partition_name(id) : id \in FoundIds}}

InitValidate ==
  /\ srcFiles = <<>>
  /\ table \in FoundTables
  /\ \E m \in 1..2 : organized \in FoundChunks(m)
  /\ dirs \in {[raw |-> FALSE, organized |-> o, delta |-> d] :
                 o \in BOOLEAN, d \in BOOLEAN}
  /\ organized # <<>> => dirs.organized
  /\ table # NoTable => dirs.delta
  /\ pc = "idle"
  /\ p1 = Idle1
  /\ p2 = Idle2
  /\ prev1 = NoPrev1
  /\ ret2 = "none"
  /\ vres = NoResult
  /\ faults = 0
  /\ orch = IdleOrch
  /\ pipe = IdlePipe
  /\ calc = NoCalc
  /\ gen = NoGen

NextValidate ==
  \/ /\ \E with_organized \in BOOLEAN, fail \in {"none", "stats", "cross"} :
          ValidateTables(with_organized, fail)
     /\ UNCHANGED <<orch, pipe, calc, gen>>

SpecValidate == InitValidate /\ [][NextValidate]_vars

\* ------------------------------- specification of the table state snapshot
\* convert_to_delta_lake is started on the tables and shard directories
\* found, among them a table whose current version has no data file
EmptyTable == [kind |-> "table", parts |-> <<>>]

InitTableState ==
  /\ srcFiles = <<>>
  /\ table \in FoundTables \cup {EmptyTable}
  /\ organized \in FoundChunks(1)
  /\ dirs \in {[raw |-> FALSE, organized |-> o, delta |-> d] :
                 o \in BOOLEAN, d \in BOOLEAN}
  /\ organized # <<>> => dirs.organized
  /\ table # NoTable => dirs.delta
  /\ pc = "idle"
  /\ p1 = Idle1
  /\ p2 = Idle2
  /\ prev1 = NoPrev1
  /\ ret2 = "none"
  /\ vres = NoResult
  /\ faults = 0
  /\ orch = IdleOrch
  /\ pipe = IdlePipe
  /\ calc = NoCalc
  /\ gen = NoGen

NextTableState ==
  \/ /\ \E force \in BOOLEAN : ConvertStart(force)
     /\ UNCHANGED <<orch, pipe, calc, gen>>

SpecTableState == InitTableState /\ [][NextTableState]_vars

\* the statistics rows stats_query can return: all zero for a table without
\* rows, else at least one combination per parcel and per date and at most
\* their product
StatsRows ==
  {<<0, 0, 0>>} \cup
  {<<up, ud, uc>> : up \in 1..MaxUniqueParcels, ud \in 1..MaxUniqueDates,
                    uc \in 1..(MaxUniqueParcels * MaxUniqueDates)}

InitCompleteness ==
  /\ srcFiles = <<>>
  /\ organized = <<>>
  /\ table = NoTable
  /\ pc = "idle"
  /\ p1 = Idle1
  /\ p2 = Idle2
  /\ prev1 = NoPrev1
  /\ ret2 = "none"
  /\ vres = NoResult
  /\ faults = 0
  /\ dirs = [raw |-> FALSE, organized |-> FALSE, delta |-> TRUE]
  /\ orch = IdleOrch
  /\ pipe = IdlePipe
  /\ gen = NoGen
  /\ \E st \in StatsRows :
       /\ st[3] <= st[1] * st[2]
       /\ st[3] >= st[1]
       /\ st[3] >= st[2]
       /\ calc = [NoCalc EXCEPT !.unique_parcels = st[1],
                                !.unique_dates = st[2],
                                !.unique_combinations = st[3]]

NextCompleteness ==
  \/ CheckCompleteness /\ UNCHANGED <<orch, pipe, gen>>

SpecCompleteness == InitCompleteness /\ [][NextCompleteness]_vars

\* --------------------------------------------- the generator's date utilities
\* A date string "YYYY-MM-DD" is <<year digits, month digits, day digits>>,
\* a datetime is <<year, month, day>>.
Fmt04(y) == <<y \div 1000, (y \div 100) % 10, (y \div 10) % 10, y % 10>>

\* d.strftime("%Y-%m-%d")
strftime(d) == <<Fmt04(d[1]), Fmt02(d[2]), Fmt02(d[3])>>

RECURSIVE ParseInt(_)
ParseInt(digits) ==
  IF digits = <<>> THEN 0
  ELSE 10 * ParseInt(SubSeq(digits, 1, Len(digits) - 1)) + digits[Len(digits)]

\* datetime.strptime(s, "%Y-%m-%d")
strptime(s) == <<ParseInt(s[1]), ParseInt(s[2]), ParseInt(s[3])>>

IsLeap(y) == (y % 4 = 0 /\ y % 100 # 0) \/ y % 400 = 0

DaysInMonth(y, m) ==
  IF m = 2 THEN (IF IsLeap(y) THEN 29 ELSE 28)
  ELSE IF m \in {4, 6, 9, 11} THEN 30
  ELSE 31

\* d + timedelta(days=1)
NextDay(d) ==
  IF d[3] < DaysInMonth(d[1], d[2]) THEN <<d[1], d[2], d[3] + 1>>
  ELSE IF d[2] < 12 THEN <<d[1], d[2] + 1, 1>>
  ELSE <<d[1] + 1, 1, 1>>

\* d + timedelta(days=n), n >= 0
RECURSIVE AddDays(_, _)
AddDays(d, n) == IF n = 0 THEN d ELSE AddDays(NextDay(d), n - 1)

\* variant of DateLeq that is strict
DateLeq_Strict(a, b) ==
  \/ a[1] < b[1]
  \/ a[1] = b[1] /\ a[2] < b[2]
  \/ a[1] = b[1] /\ a[2] = b[2] /\ a[3] < b[3]

\* a <= b on datetimes
DateLeq(a, b) ==
  \/ a[1] < b[1]
  \/ a[1] = b[1] /\ a[2] < b[2]
  \/ a[1] = b[1] /\ a[2] = b[2] /\ a[3] <= b[3]

\* "while current_date <= end_dt": the dates appended from current_date on
RECURSIVE DateLoop(_, _, _)
DateLoop(current_date, end_dt, interval_days) ==
  IF DateLeq(current_date, end_dt)
  THEN <<current_date>>
         \o DateLoop(AddDays(current_date, interval_days), end_dt, interval_days)
  ELSE <<>>

parse_date_range(start_date, end_date, interval_days) ==
  DateLoop(strptime(start_date), strptime(end_date), interval_days)

\* d.year
Year(d) == d[1]

\* variant of Runs in which every date is a group of its own
Runs_Singletons(dates) ==
  [i \in 1..Len(dates) |-> [year |-> Year(dates[i]), group |-> <<dates[i]>>]]

\* itertools.groupby(dates, key=lambda d: d.year): the maximal runs of
\* consecutive dates of one year, in order
RECURSIVE Runs(_)
Runs(dates) ==
  IF dates = <<>> THEN <<>>
  ELSE LET y == Year(dates[1])
           n == CHOOSE k \in 1..Len(dates) :
                  /\ \A i \in 1..k : Year(dates[i]) = y
                  /\ k = Len(dates) \/ Year(dates[k + 1]) # y
       IN <<[year |-> y, group |-> SubSeq(dates, 1, n)]>>
            \o Runs(SubSeq(dates, n + 1, Len(dates)))

\* the dict comprehension over the runs: a key is inserted where its year
\* comes first, and a later run of the same year replaces the list stored
group_dates_by_year(dates) ==
  LET runs == Runs(dates)
      first == {i \in 1..Len(runs) : \A j \in 1..(i - 1) : runs[j].year # runs[i].year}
      last(y) == CHOOSE i \in 1..Len(runs) :
                   /\ runs[i].year = y
                   /\ \A j \in (i + 1)..Len(runs) : runs[j].year # y
      key_runs == SelectSeq([i \in 1..Len(runs) |-> [idx |-> i, year |-> runs[i].year]],
                            LAMBDA r : r.idx \in first)
  IN [keys |-> [i \in 1..Len(key_runs) |-> key_runs[i].year],
      groups |-> [y \in {runs[i].year : i \in 1..Len(runs)} |-> runs[last(y)].group]]

\* parse_date_range(start_date, end_date, interval_days) is called
ParseDateRange ==
  /\ gen.fn = "parse_date_range"
  /\ ~gen.parsed
  /\ LET dates == parse_date_range(gen.start_date, gen.end_date, gen.interval_days)
     IN gen' = [gen EXCEPT !.parsed = TRUE, !.result = dates, !.dates = dates]
  /\ UNCHANGED <<srcFiles, organized, table, pc, p1, p2, prev1, ret2, vres,
                 faults, dirs, orch, pipe, calc>>

\* group_dates_by_year is called, on a list of dates or on the list
\* parse_date_range returned
GroupDatesByYear ==
  /\ gen.fn = "group_dates_by_year" \/ gen.parsed
  /\ ~gen.grouped
  /\ LET d == group_dates_by_year(gen.dates)
     IN gen' = [gen EXCEPT !.grouped = TRUE, !.keys = d.keys, !.groups = d.groups]
  /\ UNCHANGED <<srcFiles, organized, table, pc, p1, p2, prev1, ret2, vres,
                 faults, dirs, orch, pipe, calc>>

\* the date arguments considered: the days from Christmas Eve 2023 and from
\* 22 February 2024 on, which cross a year end and a leap day
FirstDays == {<<2023, 12, 24>>, <<2024, 2, 22>>}

DateWindow(first) == {AddDays(first, k) : k \in 0..MaxSpan}

\* the dates the lists handed to group_dates_by_year are made of
DatePool == {AddDays(<<2023, 12, 30>>, k) : k \in 0..(MaxPool - 1)}

DateLists == UNION {[1..n -> DatePool] : n \in 0..MaxListLen}

InitDates ==
  /\ srcFiles = <<>>
  /\ organized = <<>>
  /\ table = NoTable
  /\ pc = "idle"
  /\ p1 = Idle1
  /\ p2 = Idle2
  /\ prev1 = NoPrev1
  /\ ret2 = "none"
  /\ vres = NoResult
  /\ faults = 0
  /\ dirs = [raw |-> FALSE, organized |-> FALSE, delta |-> FALSE]
  /\ orch = IdleOrch
  /\ pipe = IdlePipe
  /\ calc = NoCalc
  /\ \/ \E first \in FirstDays :
          \E s \in DateWindow(first), e \in DateWindow(first),
             interval_days \in 1..MaxInterval :
            gen = [NoGen EXCEPT !.fn = "parse_date_range",
                                !.start_date = strftime(s),
                                !.end_date = strftime(e),
                                !.interval_days = interval_days]
     \/ \E dates \in DateLists :
          gen = [NoGen EXCEPT !.fn = "group_dates_by_year", !.dates = dates]

NextDates ==
  \/ ParseDateRange
  \/ GroupDatesByYear

SpecDates == InitDates /\ [][NextDates]_vars

\* ------------------------------------------------------------ reorg(phase)
\* variant of RunsPhase that runs every phase whatever was selected
RunsPhase_Always(phase, name) == TRUE

\* "if phase in [name, "all"]"
RunsPhase(phase, name) == phase \in {name, "all"}

\* the three if-blocks of reorg, in the order of the code
PhaseOrder == <<"reorg", "delta", "optimize">>

\* the if-block reached after block number i: the next one whose test
\* passes, "done" when none is left
NextStage(phase, i) ==
  LET runs == {j \in (i + 1)..Len(PhaseOrder) : RunsPhase(phase, PhaseOrder[j])}
  IN IF runs = {} THEN "done"
     ELSE PhaseOrder[CHOOSE j \in runs : \A k \in runs : j <= k]

Snapshot == [dirs |-> dirs, organized |-> organized, table |-> table,
             raw |-> srcFiles]

\* reorg(..., phase, force, dry_run, status=False) is entered
ReorgEnter(phase, chunk_size, force, dry_run, caller) ==
  /\ orch.stage = "none"
  /\ pc = "idle"
  /\ (RunsPhase(phase, "reorg") /\ ~dry_run /\ ~MissingRawInput(dirs, srcFiles))
       => TotalChunks(Cardinality(srcFiles[1]), chunk_size) <= MaxChunks
  /\ orch' = [stage |-> NextStage(phase, 0), phase |-> phase,
              chunk_size |-> chunk_size, force |-> force,
              dry_run |-> dry_run, ran |-> <<>>,
              optimize_stats |-> ZeroStats3, caller |-> caller,
              before |-> Snapshot, stats1 |-> ZeroStats1,
              stats2 |-> ZeroStats2]

ReorgCall(phase, chunk_size, force, dry_run) ==
  /\ pipe.stage = "none"
  /\ ReorgEnter(phase, chunk_size, force, dry_run, "none")
  /\ UNCHANGED <<srcFiles, organized, table, pc, p1, p2, prev1, ret2, vres,
                 faults, dirs, pipe, calc, gen>>

\* reorganize_by_parcel_chunks raises typer.Exit(1) on its input check
Phase1Exit ==
  /\ orch.stage = "reorg"
  /\ MissingRawInput(dirs, srcFiles)
  /\ orch' = [orch EXCEPT !.stage = "raised", !.ran = Append(@, "reorganize")]
  /\ UNCHANGED <<srcFiles, organized, table, pc, p1, p2, prev1, ret2, vres,
                 faults, dirs, pipe, calc, gen>>

\* reorganize_by_parcel_chunks under dry_run: returns after the input check
Phase1Dry ==
  /\ orch.stage = "reorg"
  /\ ~MissingRawInput(dirs, srcFiles)
  /\ orch.dry_run
  /\ orch' = [orch EXCEPT !.stage = NextStage(orch.phase, 1),
                          !.ran = Append(@, "reorganize"),
                          !.before = Snapshot,
                          !.stats1 = ZeroStats1]
  /\ UNCHANGED <<srcFiles, organized, table, pc, p1, p2, prev1, ret2, vres,
                 faults, dirs, pipe, calc, gen>>

Phase1Start ==
  /\ orch.stage = "reorg"
  /\ ~orch.dry_run
  /\ ReorgStart(orch.chunk_size, orch.force)
  /\ orch' = [orch EXCEPT !.stage = "reorg_running",
                          !.ran = Append(@, "reorganize")]
  /\ UNCHANGED <<pipe, calc, gen>>

Phase1Chunk(outcome) ==
  /\ orch.stage = "reorg_running"
  /\ ReorgChunk(outcome)
  /\ UNCHANGED <<orch, pipe, calc, gen>>

\* reorganize_by_parcel_chunks returns to reorg
Phase1Return ==
  /\ orch.stage = "reorg_running"
  /\ ReorgFinish
  /\ orch' = [orch EXCEPT !.stage = NextStage(orch.phase, 1),
                          !.before = Snapshot,
                          !.stats1 = p1.stats]
  /\ UNCHANGED <<pipe, calc, gen>>

\* convert_to_delta_lake raises typer.Exit(1) on its input check
Phase2Exit ==
  /\ orch.stage = "delta"
  /\ MissingChunkInput(dirs, organized)
  /\ ConvertStart(orch.force)
  /\ orch' = [orch EXCEPT !.stage = "raised", !.ran = Append(@, "convert")]
  /\ UNCHANGED <<pipe, calc, gen>>

\* convert_to_delta_lake under dry_run: returns after the input check
Phase2Dry ==
  /\ orch.stage = "delta"
  /\ ~MissingChunkInput(dirs, organized)
  /\ orch.dry_run
  /\ orch' = [orch EXCEPT !.stage = NextStage(orch.phase, 2),
                          !.ran = Append(@, "convert"),
                          !.before = Snapshot,
                          !.stats2 = DryRunStats2(organized)]
  /\ UNCHANGED <<srcFiles, organized, table, pc, p1, p2, prev1, ret2, vres,
                 faults, dirs, pipe, calc, gen>>

Phase2Start ==
  /\ orch.stage = "delta"
  /\ ~MissingChunkInput(dirs, organized)
  /\ ~orch.dry_run
  /\ ConvertStart(orch.force)
  /\ orch' = [orch EXCEPT !.stage = "delta_running",
                          !.ran = Append(@, "convert")]
  /\ UNCHANGED <<pipe, calc, gen>>

Phase2Chunk(outcome) ==
  /\ orch.stage = "delta_running"
  /\ ConvertChunk(outcome)
  /\ UNCHANGED <<orch, pipe, calc, gen>>

\* convert_to_delta_lake returns to reorg
Phase2Return ==
  /\ orch.stage = "delta_running"
  /\ ConvertFinish
  /\ orch' = [orch EXCEPT !.stage = NextStage(orch.phase, 2),
                          !.before = Snapshot,
                          !.stats2 = p2.stats]
  /\ UNCHANGED <<pipe, calc, gen>>

\* optimize_all_delta_tables(delta_dir, dry_run), called and returned
Phase3(compacts) ==
  /\ orch.stage = "optimize"
  /\ LET r == optimize_all_delta_tables(dirs, table, orch.dry_run, compacts)
         reaches_compact == dirs.delta /\ table.kind = "table" /\ ~orch.dry_run
     IN /\ ~compacts => (reaches_compact /\ faults < MaxFaults)
        /\ faults' = IF compacts THEN faults ELSE faults + 1
        /\ table' = r.table
        /\ orch' = [orch EXCEPT !.stage = NextStage(orch.phase, 3),
                                !.ran = Append(@, "optimize"),
                                !.optimize_stats = r.stats]
  /\ UNCHANGED <<srcFiles, organized, pc, p1, p2, prev1, ret2, vres, dirs,
                 pipe, calc, gen>>

\* reorg returns, or the exception of a phase leaves it
OrchReturn ==
  /\ orch.caller = "none"
  /\ orch.stage \in {"done", "raised"}
  /\ orch' = IdleOrch
  /\ UNCHANGED <<srcFiles, organized, table, pc, p1, p2, prev1, ret2, vres,
                 faults, dirs, pipe, calc, gen>>

\* the directories reorg can be started on: raw data or none, no organized
\* directory yet, no table or one left unreadable
InitReorg ==
  /\ dirs \in {[raw |-> r, organized |-> FALSE, delta |-> d] :
                 r \in BOOLEAN, d \in BOOLEAN}
  /\ \/ srcFiles \in SourceData /\ dirs.raw
     \/ srcFiles = <<>>
  /\ organized = <<>>
  /\ table \in {NoTable, CorruptTable}
  /\ table # NoTable => dirs.delta
  /\ pc = "idle"
  /\ p1 = Idle1
  /\ p2 = Idle2
  /\ prev1 = NoPrev1
  /\ ret2 = "none"
  /\ vres = NoResult
  /\ faults = 0
  /\ orch = IdleOrch
  /\ pipe = IdlePipe
  /\ calc = NoCalc
  /\ gen = NoGen

\* of the steps inside a phase, the COPY statement and the table write fail
NextReorg ==
  \/ \E phase \in {"reorg", "delta", "optimize", "all"},
        chunk_size \in 1..MaxChunkSize, force \in BOOLEAN, dry_run \in BOOLEAN :
       ReorgCall(phase, chunk_size, force, dry_run)
  \/ Phase1Exit
  \/ Phase1Dry
  \/ Phase1Start
  \/ \E outcome \in {"ok", "raise"} : Phase1Chunk(outcome)
  \/ Phase1Return
  \/ Phase2Exit
  \/ Phase2Dry
  \/ Phase2Start
  \/ \E outcome \in {"ok", "write"} : Phase2Chunk(outcome)
  \/ Phase2Return
  \/ \E compacts \in BOOLEAN : Phase3(compacts)
  \/ OrchReturn

SpecReorg == InitReorg /\ [][NextReorg]_vars

\* ------------------------------------------------------- run_full_pipeline
\* variant of FirstStage that starts with generation under validate_only too
FirstStage_IgnoresValidateOnly(validate_only) == "generate"

\* "if not validate_only" around stages 1 and 2
FirstStage(validate_only) == IF validate_only THEN "validate" ELSE "generate"

\* should_generate
should_generate(skip_existing, d, files) ==
  ~skip_existing \/ ~d.raw \/ Len(files) = 0

\* should_reorganize: glob("parcel_chunk=*") lists the chunk directories
should_reorganize(skip_existing, d, chunks) ==
  ~skip_existing \/ ~d.organized \/ Cardinality(DOMAIN chunks) = 0

\* variant of OnException that leaves pipeline_results as it is
OnException_KeepsStatus(results) == results

\* the except clause: overall_status and error of pipeline_results
OnException(results) ==
  [results EXCEPT !.overall_status = "failed", !.error = TRUE]

\* run_full_pipeline is entered: pipeline_results is set up
PipeCall(skip_existing, validate_only, reorg_phase, force, chunk_size) ==
  /\ pipe.stage = "none"
  /\ orch.stage = "none"
  /\ pc = "idle"
  /\ pipe' = [IdlePipe EXCEPT !.stage = FirstStage(validate_only),
                              !.skip_existing = skip_existing,
                              !.validate_only = validate_only,
                              !.reorg_phase = reorg_phase,
                              !.force = force,
                              !.chunk_size = chunk_size,
                              !.overall_status = "running"]
  /\ UNCHANGED <<srcFiles, organized, table, pc, p1, p2, prev1, ret2, vres,
                 faults, dirs, orch, calc, gen>>

\* stage 1 with should_generate false
PipeGenerateSkip ==
  /\ pipe.stage = "generate"
  /\ ~should_generate(pipe.skip_existing, dirs, srcFiles)
  /\ pipe' = [pipe EXCEPT
                !.stage = "reorg",
                !.stages_completed = Append(@, "timeseries_generation_skipped")]
  /\ UNCHANGED <<srcFiles, organized, table, pc, p1, p2, prev1, ret2, vres,
                 faults, dirs, orch, calc, gen>>

\* "parcel_id": f"{tile}_{i:06d}": the parcel of index i in the k-th tile;
\* two tiles never share a parcel, and a parcel keeps its id in every run
TileParcelId(k, i) == i * NumTiles + k

\* the file utm_tile=<k-th tile>/year=<year>/data.parquet: num_parcels
\* parcels of that tile on each of the dates 1..num_dates
TileFile(k, num_parcels, num_dates) ==
  {TileParcelId(k, i) : i \in 0..(num_parcels - 1)} \X (1..num_dates)

\* rglob("*.parquet") over the files of the tiles in `tiles`: the order is
\* the directory listing's, `order` being the order in which the filesystem
\* lists the tile directories
RglobOrder(order, tiles) ==
  LET Listed(k) == k \in tiles IN SelectSeq(order, Listed)

\* the tiles of a listing
ListedTiles(listing) == {listing[i] : i \in 1..Len(listing)}

\* the file of tile k among the files listed as `listing`
FileOfTile(files, listing, k) ==
  files[CHOOSE i \in 1..Len(listing) : listing[i] = k]

\* the loop of generate_timeseries over product(tiles, dates_by_year) for the
\* tiles 1..tiles and dates of one year, stopped after `written` files (a
\* range without dates has no year and writes no file); files of tiles the
\* loop did not reach stay as they are; the result is the raw files and
\* their tiles as rglob lists them afterwards
generate_timeseries(files, listing, order, tiles, num_parcels, num_dates, written) ==
  LET upto == IF num_dates = 0 THEN 0 ELSE written
      after == RglobOrder(order, ListedTiles(listing) \cup (1..upto))
  IN [listing |-> after,
      files |-> [i \in 1..Len(after) |->
                   IF after[i] <= upto
                   THEN TileFile(after[i], num_parcels, num_dates)
                   ELSE FileOfTile(files, listing, after[i])]]

\* stage 1: generate_timeseries(utm_tiles, start_date, end_date, num_parcels)
\* creates the raw directory, then parses the dates, then writes one file
\* per tile; raises: "none", "parse_date_range" (raised before any file is
\* written) or "to_parquet" (raised for the file of tile `at`, the files
\* of the tiles before it written); order: the filesystem's listing order
\* of the tile directories, the same in every listing
PipeGenerate(tiles, num_parcels, num_dates, raises, at, order) ==
  /\ pipe.stage = "generate"
  /\ should_generate(pipe.skip_existing, dirs, srcFiles)
  /\ RglobOrder(order, ListedTiles(gen.listing)) = gen.listing
  /\ num_parcels > 0 => TileParcelId(tiles, num_parcels - 1) <= NumParcels
  /\ raises = "to_parquet" => num_dates > 0 /\ at <= tiles
  /\ raises # "to_parquet" => at = 1
  /\ raises # "none" => faults < MaxFaults
  /\ faults' = IF raises = "none" THEN faults ELSE faults + 1
  /\ LET g == generate_timeseries(srcFiles, gen.listing, order, tiles,
                num_parcels, num_dates,
                IF raises = "none" THEN tiles
                ELSE IF raises = "to_parquet" THEN at - 1
                ELSE 0)
     IN /\ srcFiles' = g.files
        /\ gen' = [gen EXCEPT !.listing = g.listing]
  /\ dirs' = [dirs EXCEPT !.raw = TRUE]
  /\ pipe' = IF raises # "none"
             THEN [pipe EXCEPT !.stage = "raising",
                               !.invoked = Append(@, "generate"),
                               !.raised_in = "generate",
                               !.at_raise = [Snapshot EXCEPT
                                               !.dirs = dirs',
                                               !.raw = srcFiles']]
             ELSE [pipe EXCEPT
                     !.stage = "reorg",
                     !.invoked = Append(@, "generate"),
                     !.stages_completed = Append(@, "timeseries_generation")]
  /\ UNCHANGED <<organized, table, pc, p1, p2, prev1, ret2, vres, orch, calc>>

\* stage 2 with should_reorganize false
PipeReorgSkip ==
  /\ pipe.stage = "reorg"
  /\ ~should_reorganize(pipe.skip_existing, dirs, organized)
  /\ pipe' = [pipe EXCEPT
                !.stage = "validate",
                !.reorg_decision = "skip",
                !.organized_found = organized,
                !.stages_completed = Append(@, "reorganization_skipped")]
  /\ UNCHANGED <<srcFiles, organized, table, pc, p1, p2, prev1, ret2, vres,
                 faults, dirs, orch, calc, gen>>

\* stage 2: reorg(..., phase=reorg_phase, force=force, dry_run=False) is called
PipeReorgCall ==
  /\ pipe.stage = "reorg"
  /\ should_reorganize(pipe.skip_existing, dirs, organized)
  /\ ReorgEnter(pipe.reorg_phase, pipe.chunk_size, pipe.force, FALSE, "pipeline")
  /\ pipe' = [pipe EXCEPT !.stage = "reorg_running",
                          !.reorg_decision = "run",
                          !.organized_found = organized,
                          !.invoked = Append(@, "reorg")]
  /\ UNCHANGED <<srcFiles, organized, table, pc, p1, p2, prev1, ret2, vres,
                 faults, dirs, calc, gen>>

\* reorg returns to the pipeline
PipeReorgReturn ==
  /\ pipe.stage = "reorg_running"
  /\ orch.caller = "pipeline"
  /\ orch.stage = "done"
  /\ orch' = IdleOrch
  /\ pipe' = [pipe EXCEPT !.stage = "validate",
                          !.stages_completed = Append(@, "reorganization")]
  /\ UNCHANGED <<srcFiles, organized, table, pc, p1, p2, prev1, ret2, vres,
                 faults, dirs, calc, gen>>

\* the exception of a phase leaves reorg and reaches the pipeline
PipeReorgRaise ==
  /\ pipe.stage = "reorg_running"
  /\ orch.caller = "pipeline"
  /\ orch.stage = "raised"
  /\ orch' = IdleOrch
  /\ pipe' = [pipe EXCEPT !.stage = "raising",
                          !.raised_in = "reorg",
                          !.at_raise = Snapshot]
  /\ UNCHANGED <<srcFiles, organized, table, pc, p1, p2, prev1, ret2, vres,
                 faults, dirs, calc, gen>>

\* stage 3: validate(...) checks the table against the chunk files
\* (organized_dir given) and prints; then pipeline.run iterates
\* validation_resource, which checks the table again without organized_dir,
\* and loads its record; pipe.first_validation is the result of the first
\* check, vres that of the second; the load can raise
PipeValidate(raises) ==
  /\ pipe.stage = "validate"
  /\ raises => faults < MaxFaults
  /\ faults' = IF raises THEN faults + 1 ELSE faults
  /\ vres' = validate_delta_tables(dirs, table, NoOrganizedDir, "none")
  /\ LET first == validate_delta_tables(dirs, table, OrganizedDir, "none")
     IN pipe' = IF raises
                THEN [pipe EXCEPT !.stage = "raising",
                                  !.invoked = Append(@, "validate"),
                                  !.raised_in = "validate",
                                  !.at_raise = Snapshot,
                                  !.first_validation = first]
                ELSE [pipe EXCEPT !.stage = "completed",
                                  !.invoked = Append(@, "validate"),
                                  !.stages_completed = Append(@, "validation"),
                                  !.overall_status = "completed",
                                  !.first_validation = first]
  /\ UNCHANGED <<srcFiles, organized, table, pc, p1, p2, prev1, ret2, dirs,
                 orch, calc, gen>>

\* "except Exception": the status is recorded and the exception raised again
PipeExcept ==
  /\ pipe.stage = "raising"
  /\ pipe' = [OnException(pipe) EXCEPT !.stage = "failed"]
  /\ UNCHANGED <<srcFiles, organized, table, pc, p1, p2, prev1, ret2, vres,
                 faults, dirs, orch, calc, gen>>

\* the caller has the result or the exception
PipeEnd ==
  /\ pipe.stage \in {"completed", "failed"}
  /\ pipe' = IdlePipe
  /\ UNCHANGED <<srcFiles, organized, table, pc, p1, p2, prev1, ret2, vres,
                 faults, dirs, orch, calc, gen>>

\* a first run: nothing generated yet
InitPipeline ==
  /\ srcFiles = <<>>
  /\ organized = <<>>
  /\ table = NoTable
  /\ pc = "idle"
  /\ p1 = Idle1
  /\ p2 = Idle2
  /\ prev1 = NoPrev1
  /\ ret2 = "none"
  /\ vres = NoResult
  /\ faults = 0
  /\ dirs = [raw |-> FALSE, organized |-> FALSE, delta |-> FALSE]
  /\ orch = IdleOrch
  /\ pipe = IdlePipe
  /\ calc = NoCalc
  /\ gen = NoGen

\* the runs considered pass reorg_phase "all", as utm_tiles the first or
\* both of two tiles, whose directories the filesystem lists in either
\* order, a number of parcels per tile that fits both tiles, and a date
\* range that is empty or holds every date, in one year;
\* of the steps inside a phase only the COPY statement fails
NextPipeline ==
  \/ \E skip_existing \in BOOLEAN, validate_only \in BOOLEAN,
        reorg_phase \in {"all"},
        force \in BOOLEAN, chunk_size \in 1..MaxChunkSize :
       PipeCall(skip_existing, validate_only, reorg_phase, force, chunk_size)
  \/ PipeGenerateSkip
  \/ \E tiles \in 1..NumTiles, num_parcels \in 0..(NumParcels \div NumTiles),
        num_dates \in {0, NumDates},
        raises \in {"none", "parse_date_range", "to_parquet"},
        at \in 1..NumTiles, order \in Permutations(1..NumTiles) :
       PipeGenerate(tiles, num_parcels, num_dates, raises, at, order)
  \/ PipeReorgSkip
  \/ PipeReorgCall
  \/ Phase1Exit
  \/ Phase1Start
  \/ \E outcome \in {"ok", "raise"} : Phase1Chunk(outcome)
  \/ Phase1Return
  \/ Phase2Exit
  \/ Phase2Start
  \/ Phase2Chunk("ok")
  \/ Phase2Return
  \/ \E compacts \in BOOLEAN : Phase3(compacts)
  \/ PipeReorgReturn
  \/ PipeReorgRaise
  \/ PipeValidate(FALSE)
  \/ PipeValidate(TRUE)
  \/ PipeExcept
  \/ PipeEnd

SpecPipeline == InitPipeline /\ [][NextPipeline]_vars

\* ==================================================================== claims
\* rows of the data.parquet of chunk k (none when there is no file)
ShardRows(k) ==
  LET name == get_chunk_directory_name(k)
  IN IF name \in DOMAIN organized THEN organized[name].rows ELSE EmptyBag

ShardFile(dir, k) ==
  LET name == get_chunk_directory_name(k)
  IN IF name \in DOMAIN dir THEN dir[name] ELSE NoFile

\* an output file that exists, is readable and has at least one row
ValidFile(f) == f.kind = "data" /\ BagSize(f.rows) > 0

\* C1: for the shard count N > 0 of a call, a shard file written by the call
\* holds a source row exactly when HASH(parcel_id) mod N is its index; the
\* files written by one call are disjoint in parcel_id, and once all N are
\* written every parcel of the source is in exactly one of them
C1_HashPartition ==
  (pc = "reorg" /\ p1.total_chunks > 0) =>
    LET N == p1.total_chunks
    IN /\ \A k \in p1.written :
            /\ k \in 0..(N - 1)
            /\ ShardFile(organized, k).kind = "data"
            /\ \A pr \in Pairs :
                 ShardRows(k)[pr] = IF HASH(pr[1]) % N = k THEN AllRows[pr] ELSE 0
       /\ \A k1, k2 \in p1.written :
            k1 # k2 =>
              DistinctParcels(ShardRows(k1)) \cap DistinctParcels(ShardRows(k2)) = {}
       /\ p1.written = 0..(N - 1) =>
            \A p \in DistinctParcels(AllRows) :
              Cardinality({k \in p1.written : p \in DistinctParcels(ShardRows(k))}) = 1

C1_Witness ==
  /\ pc = "reorg"
  /\ p1.written = 0..(p1.total_chunks - 1)
  /\ \E k1, k2 \in p1.written :
       /\ k1 # k2
       /\ DistinctParcels(ShardRows(k1)) # {}
       /\ DistinctParcels(ShardRows(k2)) # {}
  /\ \E pr \in Pairs : AllRows[pr] = 2

\* C2: among the write_deltalake calls of one convert call only the first
\* can use overwrite, and it does exactly when the snapshot says the table
\* does not exist or force is set; every later call appends
C2_OverwriteOnlyFirst ==
  pc = "delta" =>
    /\ \A i \in 2..Len(p2.writes) : p2.writes[i] = "append"
    /\ Len(p2.writes) >= 1 =>
         (p2.writes[1] = "overwrite" <=> (~p2.table_state.exists \/ p2.force))
    /\ Len(p2.writes) >= 1 => ~p2.first_chunk

C2_Witness ==
  /\ pc = "delta"
  /\ Len(p2.writes) >= 2
  /\ p2.writes[1] = "overwrite"
  /\ p2.table_state.exists

\* C3 as stated: after a shard is written, the partition of its id holds
\* each distinct (parcel_id, date) pair of the shard file exactly once, so
\* its row count is the number of distinct pairs
C3_Original ==
  (pc = "delta" /\ p2.last.called_write /\ p2.last.outcome \in {"ok", "verify"}) =>
    LET id == extract_partition_id(p2.last.chunk)
        shard == p2.last.file.rows
        part == PartitionRows(table, id)
    IN /\ id \in get_delta_partitions(table)
       /\ \A pr \in Pairs : part[pr] = IF shard[pr] > 0 THEN 1 ELSE 0
       /\ BagSize(part) = Cardinality(DistinctPairs(shard))

\* C4: an iteration of phase 1 skips the shard (counts it skipped, does not
\* execute the COPY statement) if and only if the output file exists, is
\* readable with at least one row, and force is False; in every other case
\* the COPY statement is executed
C4_SkipIffValidAndNotForced ==
  (pc = "reorg" /\ Len(p1.visited) > 0) =>
    LET skip == ValidFile(p1.last.old) /\ ~p1.force
    IN /\ (p1.last.key = "skipped") <=> skip
       /\ p1.last.copied <=> ~skip
       /\ skip => ShardFile(organized, p1.chunk_id - 1) = p1.last.old

C4_Witness ==
  /\ pc = "reorg"
  /\ Len(p1.visited) > 0
  /\ p1.last.key = "skipped"
  /\ ~p1.last.copied

\* the last iteration of the running convert call, if there was one
Iterated2 == pc = "delta" /\ p2.last.outcome # "none"

InSnapshot(chunk_name) ==
  /\ p2.table_state.exists
  /\ extract_partition_id(chunk_name) \in p2.table_state.existing_partitions

\* C5 as stated: a shard is skipped exactly when force is not set and the
\* snapshot has the table and the shard's partition
C5_Original ==
  Iterated2 =>
    ((p2.last.key = "skipped" /\ ~p2.last.called_write)
       <=> (~p2.force /\ InSnapshot(p2.last.chunk)))

\* C5 (amended): a shard is skipped (counted skipped, no write issued)
\* exactly when its data.parquet exists, force is not set and the snapshot
\* has the table and the shard's partition; a shard without data.parquet is
\* counted failed before the skip check; with force no shard is skipped
C5_SkipIffInSnapshot ==
  Iterated2 =>
    /\ (p2.last.key = "skipped")
         <=> (/\ p2.last.file.kind # "missing"
              /\ ~p2.force
              /\ InSnapshot(p2.last.chunk))
    /\ p2.last.key = "skipped" => ~p2.last.called_write
    /\ p2.last.file.kind = "missing" => p2.last.key = "failed"
    /\ p2.force => p2.last.key # "skipped"

C5_Witness ==
  /\ Iterated2
  /\ p2.last.key = "skipped"
  /\ p2.stats.skipped >= 1

\* a call of phase 1 about to return that repeats the previous call:
\* same source, same chunk_size, force = False, nothing called in between
SecondRun ==
  /\ pc = "reorg"
  /\ p1.chunk_id = p1.total_chunks
  /\ ~p1.force
  /\ prev1.valid
  /\ prev1.chunk_size = p1.chunk_size

\* C6 as stated: the second run leaves the same files and skips every shard
C6_Original ==
  SecondRun =>
    /\ organized = p1.before
    /\ p1.stats.skipped = p1.total_chunks
    /\ p1.stats.created = 0
    /\ p1.stats.failed = 0

\* C6 (amended): the second run leaves every shard file that was valid
\* after the first run as it is and reports it skipped; a shard whose file
\* was missing, empty or unreadable after the first run is extracted again
\* and reported created or failed; when every shard file was valid the
\* files are identical, skipped = total_chunks, created = 0 and failed = 0
C6_IdempotentOnValidShards ==
  SecondRun =>
    LET ids == 0..(p1.total_chunks - 1)
        kept == {k \in ids : ValidFile(ShardFile(p1.before, k))}
    IN /\ \A k \in kept : ShardFile(organized, k) = ShardFile(p1.before, k)
       /\ p1.stats.skipped = Cardinality(kept)
       /\ p1.stats.created + p1.stats.failed = Cardinality(ids \ kept)
       /\ kept = ids =>
            /\ organized = p1.before
            /\ p1.stats.skipped = p1.total_chunks
            /\ p1.stats.created = 0
            /\ p1.stats.failed = 0

C6_Witness ==
  /\ SecondRun
  /\ p1.total_chunks >= 2
  /\ p1.stats.skipped = p1.total_chunks
  /\ organized = p1.before

\* the names of a sequence of chunk directories ascend in str order
Ascending(names) ==
  \A i, j \in 1..Len(names) :
    i < j => DigitsLess(extract_partition_id(names[i]), extract_partition_id(names[j]))

\* C7: an iteration of phase 2 that fails (no data.parquet, unreadable or
\* empty shard, exception from the query or from write_deltalake, failed
\* verification) adds one to failed and nothing else, and the loop goes on
\* with the next directory of the sorted list; the call returns only after
\* the last directory
C7_FailureDoesNotAbort ==
  [][ /\ pc = "delta" =>
           /\ Ascending(p2.chunk_dirs)
           /\ {p2.chunk_dirs[i] : i \in 1..Len(p2.chunk_dirs)} = DOMAIN organized
      /\ (pc = "delta" /\ p2.idx <= Len(p2.chunk_dirs)) =>
           /\ pc' = "delta"
           /\ p2'.idx = p2.idx + 1
           /\ p2'.chunk_dirs = p2.chunk_dirs
           /\ p2'.last.chunk = p2.chunk_dirs[p2.idx]
           /\ LET f == organized[p2.chunk_dirs[p2.idx]]
                  o == p2'.last.outcome
                  fails == \/ f.kind = "missing"
                           \/ /\ p2'.last.key # "skipped"
                              /\ \/ f.kind = "corrupt"
                                 \/ BagSize(f.rows) = 0
                                 \/ o \in {"query", "write", "verify"}
              IN fails => p2'.stats = [p2.stats EXCEPT !.failed = @ + 1]
      /\ (pc = "delta" /\ pc' # "delta") => p2.idx > Len(p2.chunk_dirs)
    ]_vars

C7_Witness ==
  /\ pc = "delta"
  /\ p2.stats.failed >= 1
  /\ p2.last.key = "processed"
  /\ p2.idx > Len(p2.chunk_dirs)

\* C8: in phase 1 a shard whose COPY statement raises or extracts no row is
\* counted failed, not created, and the loop goes on: the chunk ids reached
\* so far are 0, 1, 2, ... in this order, each once, up to total_chunks
C8_FailedShardContinues ==
  pc = "reorg" =>
    /\ p1.chunk_id <= p1.total_chunks
    /\ p1.visited = [i \in 1..p1.chunk_id |-> i - 1]
    /\ (/\ Len(p1.visited) > 0
        /\ p1.last.copied
        /\ \/ p1.last.outcome # "ok"
           \/ \A pr \in Pairs :
                HASH(pr[1]) % p1.total_chunks = p1.chunk_id - 1 => AllRows[pr] = 0)
         => /\ p1.last.key = "failed"
            /\ (p1.chunk_id - 1) \notin p1.written \/ p1.last.outcome = "ok"
            /\ p1.stats.created + p1.stats.skipped + p1.stats.failed
                 = Len(p1.visited)

C8_Witness ==
  /\ pc = "reorg"
  /\ p1.stats.failed >= 1
  /\ p1.last.outcome = "ok"
  /\ p1.last.key = "created"
  /\ p1.chunk_id = p1.total_chunks
  /\ \E k \in 0..(p1.total_chunks - 1) :
       ShardFile(organized, k).kind = "data" /\ BagSize(ShardRows(k)) = 0

\* the row count of the last written shard's partition, read back from the
\* table
RowsReread ==
  BagSize(PartitionRows(table, extract_partition_id(p2.last.chunk)))

\* C9 as stated: a shard is reported processed only if the re-opened table
\* has at least one file and the row count read back for the shard from the
\* table is the number of rows of the shard handed to the write
C9_Original ==
  (Iterated2 /\ p2.last.key = "processed") =>
    /\ FileCount(table) > 0
    /\ RowsReread = BagSize(p2.last.rows)

\* some parcel_id is in two different partitions of the table
Overlapping(t) ==
  \E a, b \in get_delta_partitions(t) :
    a # b /\ PartitionParcels(t, a) \cap PartitionParcels(t, b) # {}

\* C10: when a parcel_id is in two partitions of the validated table the
\* result has valid = False, and it lists an overlap issue whenever the
\* validation ran through (no query raised)
C10_OverlapInvalid ==
  (vres.called /\ Overlapping(table)) =>
    /\ ~vres.valid
    /\ ~vres.error => \E i \in 1..Len(vres.issues) : vres.issues[i].kind = "overlap"

C10_Witness ==
  /\ vres.called
  /\ Overlapping(table)
  /\ ~vres.error
  /\ ~vres.valid
  /\ \E i \in 1..Len(vres.issues) : vres.issues[i].kind = "overlap"

\* the result lists an issue of this kind for this partition
HasIssue(kind, part) ==
  \E i \in 1..Len(vres.issues) :
    vres.issues[i].kind = kind /\ vres.issues[i].part = part

\* the number of issues of these kinds in the result
CountIssues(kinds) ==
  Cardinality({i \in 1..Len(vres.issues) : vres.issues[i].kind \in kinds})

\* a validation that ran through: the table opened and no statistics query raised
Validated == vres.called /\ ~vres.error

\* C11 as stated: the result of a validation that ran through is invalid
\* only when it lists an overlap issue; with other issues alone it is valid
C11_Original ==
  Validated =>
    (~vres.valid => \E i \in 1..Len(vres.issues) : vres.issues[i].kind = "overlap")

\* C11: the result is valid exactly when the validation ran through and
\* found no issue at all; an overlap, missing combinations or a mismatch
\* against the organized shards each make the result invalid
C11_ValidIffNoIssues ==
  vres.called => (vres.valid <=> (~vres.error /\ vres.issues = <<>>))

C11_Witness ==
  /\ Validated
  /\ ~vres.valid
  /\ vres.issues # <<>>
  /\ CountIssues({"overlap"}) = 0

\* the chunk file that belongs to a partition of the table
ChunkOf(id) ==
  LET name == format_partition_name(id)
  IN IF name \in DOMAIN organized THEN organized[name] ELSE NoFile

\* the number of dates a parcel has in a bag of rows
DatesOf(b, p) == Cardinality({pr \in DistinctPairs(b) : pr[1] = p})

\* shard file and partition differ in their parcels, or in the number of
\* dates of a parcel they share
DiffersFromChunk(id) ==
  LET shard == ChunkOf(id).rows
      part == PartitionRows(table, id)
  IN \/ DistinctParcels(shard) # DistinctParcels(part)
     \/ \E p \in DistinctParcels(shard) \cap DistinctParcels(part) :
          DatesOf(shard, p) # DatesOf(part, p)

\* a cross-validation against an organized directory that ran through
CrossValidated ==
  /\ Validated
  /\ vres.with_organized
  /\ vres.fail = "none"
  /\ dirs.organized
  /\ DOMAIN organized # {}

\* C12 as stated: a partition whose shard file has other parcels, or another
\* number of dates for a common parcel, gets an issue, also when the
\* deduplicated row counts of the two are equal
C12_Original ==
  CrossValidated =>
    \A id \in get_delta_partitions(table) :
      (ValidFile(ChunkOf(id)) /\ DiffersFromChunk(id)) =>
        \E i \in 1..Len(vres.issues) : vres.issues[i].part = id

\* C13: a call of validate_delta_tables always ends with a result record.
\* When the table opens and no statistics query raises, the record lists
\* every mismatch there is, each once and none hiding another: an overlap
\* issue for every partition sharing a parcel with an earlier one, the
\* missing combinations, for every partition a missing or invalid shard
\* file, a failed count query or a count mismatch, and the shards present on
\* one side only.  Otherwise the record is invalid and carries the error.
C13_ValidatorAlwaysReturns ==
  vres.called =>
    LET partitions == get_delta_partitions(table)
        cross == vres.with_organized /\ dirs.organized /\ DOMAIN organized # {}
        in_organized == {extract_partition_id(n) : n \in DOMAIN organized}
    IN IF vres.error
       THEN /\ ~vres.valid
            /\ Len(vres.issues) <= 1
            /\ \/ ~validate_delta_table(table)
               \/ vres.fail = "stats"
       ELSE /\ \A id \in partitions :
                 /\ HasIssue("overlap", id)
                      <=> \E other \in partitions :
                            /\ DigitsLess(other, id)
                            /\ PartitionParcels(table, other)
                                 \cap PartitionParcels(table, id) # {}
                 /\ HasIssue("chunk_not_found", id)
                      <=> (cross /\ ChunkOf(id).kind = "missing")
                 /\ HasIssue("chunk_invalid", id)
                      <=> (/\ cross
                           /\ ChunkOf(id).kind # "missing"
                           /\ ~ValidFile(ChunkOf(id)))
                 /\ HasIssue("cross_query_failed", id)
                      <=> (cross /\ ValidFile(ChunkOf(id)) /\ vres.fail = "cross")
                 /\ HasIssue("count_mismatch", id)
                      <=> (/\ cross
                           /\ ValidFile(ChunkOf(id))
                           /\ vres.fail = "none"
                           /\ Cardinality(DistinctPairs(ChunkOf(id).rows))
                                # BagSize(PartitionRows(table, id)))
            /\ HasIssue("missing", <<>>) <=> MissingCombinations(table) > 0
            /\ HasIssue("missing_in_delta", <<>>)
                 <=> (cross /\ in_organized \ partitions # {})
            /\ HasIssue("extra_in_delta", <<>>)
                 <=> (cross /\ partitions \ in_organized # {})
            /\ \A i, j \in 1..Len(vres.issues) :
                 (/\ vres.issues[i].kind = vres.issues[j].kind
                  /\ vres.issues[i].part = vres.issues[j].part) => i = j
            /\ vres.total_tables = Cardinality(partitions)

C13_Witness ==
  /\ Validated
  /\ vres.with_organized
  /\ \E i, j \in 1..Len(vres.issues) :
       /\ i < j
       /\ vres.issues[i].kind = "chunk_not_found"
       /\ vres.issues[j].kind = "count_mismatch"
  /\ CountIssues({"overlap"}) >= 1
  /\ CountIssues({"missing"}) >= 1

\* C14: expected = unique_parcels * unique_dates, missing = expected -
\* unique_combinations, and completeness is unique_combinations / expected
\* as a percentage, printed to one decimal: 90.0 and 5 missing for 10
\* parcels, 5 dates and 45 combinations, and 0 when expected is 0
C14_Completeness ==
  calc.computed =>
    LET expected == calc.unique_parcels * calc.unique_dates
    IN /\ calc.expected_combinations = expected
       /\ calc.missing_combinations = expected - calc.unique_combinations
       /\ expected = 0 => calc.completeness_tenths = 0
       /\ expected > 0 =>
            LET diff == calc.completeness_tenths * expected
                          - calc.unique_combinations * 1000
            IN 2 * diff <= expected /\ -2 * diff <= expected
       /\ (/\ calc.unique_parcels = 10
           /\ calc.unique_dates = 5
           /\ calc.unique_combinations = 45)
            => (calc.completeness_tenths = 900 /\ calc.missing_combinations = 5)

C14_Witness ==
  /\ calc.computed
  /\ calc.unique_parcels = 10
  /\ calc.unique_dates = 5
  /\ calc.unique_combinations = 45
  /\ calc.completeness_tenths = 900
  /\ calc.missing_combinations = 5

\* the phase functions reorg(phase) calls, in the order it calls them
ExpectedRan(phase) ==
  IF phase = "all" THEN <<"reorganize", "convert", "optimize">>
  ELSE IF phase = "reorg" THEN <<"reorganize">>
  ELSE IF phase = "delta" THEN <<"convert">>
  ELSE IF phase = "optimize" THEN <<"optimize">>
  ELSE <<>>

IsPrefix(a, b) == Len(a) <= Len(b) /\ \A i \in 1..Len(a) : a[i] = b[i]

\* the phase function reorg called last
LastRan == IF orch.ran = <<>> THEN "none" ELSE orch.ran[Len(orch.ran)]

\* C15: reorg(phase) calls exactly the phase functions phase selects, under
\* "all" reorganize, convert, optimize in this order, and a phase function
\* is called only when the one before it has returned
C15_SelectedPhasesInOrder ==
  orch.stage # "none" =>
    /\ IsPrefix(orch.ran, ExpectedRan(orch.phase))
    /\ orch.stage = "done" => orch.ran = ExpectedRan(orch.phase)
    /\ orch.stage \in {"delta", "delta_running", "optimize"} => p1 = Idle1
    /\ orch.stage \in {"reorg", "reorg_running", "optimize"} => p2 = Idle2
    /\ orch.stage \in {"reorg", "delta", "optimize"} => pc = "idle"

C15_Witness ==
  /\ orch.stage = "done"
  /\ orch.phase = "all"
  /\ ~orch.dry_run
  /\ orch.ran = <<"reorganize", "convert", "optimize">>
  /\ validate_delta_table(table)
  /\ orch.optimize_stats.optimized = 1

\* C19: reorganize raises when the input directory is absent or holds no
\* source file, convert when the shard directory is absent or holds no
\* shard directory, under dry_run as well; at the raise no directory, file
\* or table has been created and no shard has been processed, and under
\* "all" a raise of reorganize leaves convert and optimize uncalled.  A
\* phase that got past its check had its input.
C19_FailFast ==
  /\ orch.stage = "raised" =>
       /\ Snapshot = orch.before
       /\ pc = "idle" /\ p1 = Idle1 /\ p2 = Idle2
       /\ LastRan \in {"reorganize", "convert"}
       /\ LastRan = "reorganize" =>
            /\ ~dirs.raw \/ Len(srcFiles) = 0
            /\ orch.ran = <<"reorganize">>
       /\ LastRan = "convert" => (~dirs.organized \/ DOMAIN organized = {})
  /\ orch.stage \notin {"none", "raised"} =>
       /\ (\E i \in 1..Len(orch.ran) : orch.ran[i] = "reorganize")
            => (dirs.raw /\ Len(srcFiles) > 0)
       /\ (\E i \in 1..Len(orch.ran) : orch.ran[i] = "convert")
            => (dirs.organized /\ DOMAIN organized # {})

C19_Witness ==
  /\ orch.stage = "raised"
  /\ orch.phase = "all"
  /\ orch.dry_run
  /\ orch.ran = <<"reorganize">>
  /\ ~dirs.organized
  /\ ~dirs.delta

\* C20 as stated: optimize reports a missing or unreadable table as one
\* failed table
C20_Original ==
  (LastRan = "optimize" /\ (~dirs.delta \/ table.kind # "table")) =>
    orch.optimize_stats.failed = 1

\* C20: optimize always returns, with optimized + failed = total_tables; a
\* table that is there but does not open is one failed table, a missing
\* delta directory or a missing table gives total_tables = 0, optimized =
\* 0 and failed = 0
C20_OptimizeNeverRaises ==
  LastRan = "optimize" =>
    LET st == orch.optimize_stats
    IN /\ orch.stage = "done"
       /\ st.optimized + st.failed = st.total_tables
       /\ (~dirs.delta \/ table.kind = "absent") => st = ZeroStats3
       /\ (dirs.delta /\ table.kind = "corrupt")
            => st = [total_tables |-> 1, optimized |-> 0, failed |-> 1]
       /\ (dirs.delta /\ table.kind = "table") => st.total_tables = 1

C20_Witness ==
  /\ LastRan = "optimize"
  /\ dirs.delta
  /\ table.kind = "corrupt"
  /\ orch.optimize_stats = [total_tables |-> 1, optimized |-> 0, failed |-> 1]

\* the run called this stage function
Invoked(name) == \E i \in 1..Len(pipe.invoked) : pipe.invoked[i] = name

\* C16: a run reaches the validation stage unless generation or
\* reorganization raised; under validate_only neither generation nor reorg
\* is called; overall_status is "completed" only after validation ran, the
\* stages before it each completed or skipped
C16_ValidationAlwaysRuns ==
  /\ pipe.stage \in {"completed", "failed"} =>
       (Invoked("validate") <=> pipe.raised_in \notin {"generate", "reorg"})
  /\ pipe.validate_only =>
       /\ ~Invoked("generate")
       /\ ~Invoked("reorg")
       /\ orch = IdleOrch
       /\ pipe.reorg_decision = "none"
  /\ pipe.overall_status = "completed" =>
       /\ Invoked("validate")
       /\ vres.called
       /\ pipe.stage = "completed"
       /\ IF pipe.validate_only
          THEN pipe.stages_completed = <<"validation">>
          ELSE /\ Len(pipe.stages_completed) = 3
               /\ pipe.stages_completed[1] \in
                    {"timeseries_generation", "timeseries_generation_skipped"}
               /\ pipe.stages_completed[2] \in
                    {"reorganization", "reorganization_skipped"}
               /\ pipe.stages_completed[3] = "validation"

C16_Witness ==
  /\ pipe.overall_status = "completed"
  /\ ~pipe.validate_only
  /\ pipe.stages_completed = <<"timeseries_generation_skipped",
                               "reorganization_skipped", "validation">>
  /\ vres.called

\* C17 as stated: with skip_existing and without validate_only, stage 2 is
\* skipped exactly when a file is found under the organized directory
C17_Original ==
  (pipe.skip_existing /\ ~pipe.validate_only /\ pipe.reorg_decision # "none") =>
    (pipe.reorg_decision = "skip"
       <=> \E n \in DOMAIN pipe.organized_found :
             pipe.organized_found[n].kind # "missing")

\* C18: an exception of a stage ends the run: no later stage is called,
\* the stage is not listed as completed, overall_status is "failed" with
\* the error recorded, and what is on disk is what was there at the raise
C18_ExceptionAborts ==
  /\ pipe.stage = "failed" =>
       /\ pipe.overall_status = "failed"
       /\ pipe.error
       /\ pipe.raised_in \in {"generate", "reorg", "validate"}
       /\ pipe.invoked[Len(pipe.invoked)] = pipe.raised_in
       /\ Snapshot = pipe.at_raise
       /\ orch = IdleOrch
       /\ \A i \in 1..Len(pipe.stages_completed) :
            /\ pipe.stages_completed[i] # "validation"
            /\ pipe.raised_in = "generate" =>
                 pipe.stages_completed[i] \notin
                   {"timeseries_generation", "reorganization",
                    "reorganization_skipped"}
            /\ pipe.raised_in = "reorg" =>
                 pipe.stages_completed[i] # "reorganization"
  /\ pipe.stage = "raising" => pipe.overall_status = "running"
  /\ pipe.overall_status = "failed" => pipe.stage = "failed"

C18_Witness ==
  /\ pipe.stage = "failed"
  /\ pipe.raised_in = "validate"
  /\ pipe.stages_completed = <<"timeseries_generation", "reorganization">>
  /\ validate_delta_table(table)
  /\ pipe.error

\* C21: under dry_run no phase changes what is on disk: the directories,
\* the shard files and the table (its files and rows) stay as the call
\* found them, no loop iteration runs, and the counters reorganize and
\* convert return are 0
C21_DryRunChangesNothing ==
  (orch.stage # "none" /\ orch.dry_run) =>
    /\ Snapshot = orch.before
    /\ pc = "idle" /\ p1 = Idle1 /\ p2 = Idle2
    /\ orch.stats1 = ZeroStats1
    /\ orch.stats2.processed = 0
    /\ orch.stats2.skipped = 0
    /\ orch.stats2.failed = 0
    /\ orch.stage \in {"reorg", "delta", "optimize", "done", "raised"}

C21_Witness ==
  /\ orch.stage = "done"
  /\ orch.dry_run
  /\ orch.ran = <<"reorganize", "convert", "optimize">>
  /\ orch.stats2.total_chunks >= 1
  /\ orch.optimize_stats.optimized = 1
  /\ \E id \in DOMAIN table.parts : table.parts[id].files > 1

\* C22 as stated: reorganize_by_parcel_chunks does not get past a sample
\* count of 0: it neither enters its loop section nor returns with 0 shards
C22_Original ==
  pc = "reorg" => (Cardinality(srcFiles[1]) > 0 /\ p1.total_chunks > 0)

\* ceil(n / d) for d >= 1
CeilDiv(n, d) == IF n % d = 0 THEN n \div d ELSE n \div d + 1

\* C30 as stated: total_chunks is the number of distinct parcels of the
\* sample file divided by chunk_size, rounded up, however many rows the
\* file holds per parcel
C30_Original ==
  pc = "reorg" =>
    p1.total_chunks
      = CeilDiv(Cardinality({pr[1] : pr \in srcFiles[1]}), p1.chunk_size)

\* the days from 1 January of year y0 to 1 January of year y
RECURSIVE DaysBeforeYear(_, _)
DaysBeforeYear(y0, y) ==
  IF y <= y0 THEN 0
  ELSE DaysBeforeYear(y0, y - 1) + (IF IsLeap(y - 1) THEN 366 ELSE 365)

RECURSIVE DaysBeforeMonth(_, _)
DaysBeforeMonth(y, m) ==
  IF m <= 1 THEN 0 ELSE DaysBeforeMonth(y, m - 1) + DaysInMonth(y, m - 1)

\* the day number of a date, counted from 1 January 2023
Ordinal(d) == DaysBeforeYear(2023, d[1]) + DaysBeforeMonth(d[1], d[2]) + d[3]

\* C23: parse_date_range returns exactly the dates start + k * interval_days,
\* k = 0, 1, 2, ..., that are not after end, in increasing order: start
\* first when start <= end, equal steps of interval_days, the last one
\* less than interval_days before end, and nothing when end is before start
C23_DateRange ==
  (gen.fn = "parse_date_range" /\ gen.parsed) =>
    LET s == Ordinal(strptime(gen.start_date))
        e == Ordinal(strptime(gen.end_date))
        r == gen.result
    IN /\ e < s => r = <<>>
       /\ s <= e =>
            /\ Len(r) = (e - s) \div gen.interval_days + 1
            /\ r[1] = strptime(gen.start_date)
            /\ e - Ordinal(r[Len(r)]) \in 0..(gen.interval_days - 1)
       /\ \A i \in 1..Len(r) :
            /\ r[i][2] \in 1..12
            /\ r[i][3] \in 1..DaysInMonth(r[i][1], r[i][2])
            /\ Ordinal(r[i]) = s + (i - 1) * gen.interval_days
            /\ Ordinal(r[i]) <= e

C23_Witness ==
  /\ gen.fn = "parse_date_range"
  /\ gen.parsed
  /\ gen.interval_days > 1
  /\ Len(gen.result) >= 3
  /\ gen.result[1] = <<2023, 12, 27>>
  /\ gen.result[Len(gen.result)][1] = 2024
  /\ gen.result[Len(gen.result)] # strptime(gen.end_date)

\* dates of the same year are next to each other in the list
YearsContiguous(dates) ==
  \A i, j, k \in 1..Len(dates) :
    (i < j /\ j < k /\ Year(dates[i]) = Year(dates[k]))
      => Year(dates[j]) = Year(dates[i])

\* C24: for a list whose dates of the same year are contiguous,
\* group_dates_by_year returns a mapping whose keys are the years of the
\* list, each once, and whose value for a year is the list's dates of that
\* year in the order of the list; the empty list gives the empty mapping
C24_GroupByYear ==
  (gen.grouped /\ YearsContiguous(gen.dates)) =>
    /\ DOMAIN gen.groups = {Year(gen.dates[i]) : i \in 1..Len(gen.dates)}
    /\ {gen.keys[i] : i \in 1..Len(gen.keys)} = DOMAIN gen.groups
    /\ \A i, j \in 1..Len(gen.keys) : gen.keys[i] = gen.keys[j] => i = j
    /\ \A y \in DOMAIN gen.groups :
         gen.groups[y] = SelectSeq(gen.dates, LAMBDA d : Year(d) = y)
    /\ gen.dates = <<>> => (gen.keys = <<>> /\ DOMAIN gen.groups = {})

C24_Witness ==
  /\ gen.grouped
  /\ gen.fn = "group_dates_by_year"
  /\ YearsContiguous(gen.dates)
  /\ gen.keys = <<2024, 2023>>
  /\ Len(gen.groups[2024]) = 2
  /\ Ordinal(gen.groups[2024][1]) > Ordinal(gen.groups[2024][2])

\* C29: DeltaTableState.from_path always returns: exists = False, no
\* partitions, no version and no file count when the table directory is
\* absent, does not open as a table, or is a table without data files;
\* otherwise exists = True with the version, the number of data files and
\* the partition ids of the data files
C29_TableState ==
  /\ (pc = "delta" /\ p2.idx = 1 /\ p2.writes = <<>>) =>
       LET ts == p2.table_state
           data_parts == {id \in DOMAIN table.parts : table.parts[id].files > 0}
       IN IF table.kind \in {"absent", "corrupt"} \/ data_parts = {}
          THEN /\ ~ts.exists
               /\ ts.existing_partitions = {}
               /\ ts.version = "None"
               /\ ts.file_count = "None"
          ELSE /\ ts.exists
               /\ ts.existing_partitions = data_parts
               /\ ts.version = "dt.version()"
               /\ ts.file_count = FileCount(table)
               /\ ts.file_count >= Cardinality(data_parts)
  /\ (ret2 # "none" /\ dirs.organized /\ DOMAIN organized # {}) => pc = "delta"

C29_Witness ==
  /\ pc = "delta"
  /\ p2.idx = 1
  /\ table = EmptyTable
  /\ ~p2.table_state.exists
  /\ p2.table_state.file_count = "None"

\* a convert call whose loop is exhausted
ConvertDone == pc = "delta" /\ p2.idx > Len(p2.chunk_dirs)

\* C25 as stated: at the end of a convert call with force over a table
\* that existed, every partition of the table holds the distinct
\* (parcel_id, date) pairs of its shard file, each once
C25_Original ==
  (ConvertDone /\ p2.force /\ p2.table_state.exists) =>
    \A id \in get_delta_partitions(table) :
      \A pr \in Pairs :
        PartitionRows(table, id)[pr] = IF ChunkOf(id).rows[pr] > 0 THEN 1 ELSE 0

\* the three outcome counters of a reorganize call and of a convert call
Sum1(stats) == stats.created + stats.skipped + stats.failed
Sum2(stats) == stats.processed + stats.skipped + stats.failed

\* exactly one of the counters ks grew from stats a to stats b, by one, and
\* total_chunks stayed
OneCounterGrew(a, b, ks) ==
  /\ b.total_chunks = a.total_chunks
  /\ \E k \in ks : /\ b[k] = a[k] + 1
                   /\ \A j \in ks \ {k} : b[j] = a[j]

\* the counters after each iteration and when the loop is exhausted
CountersMatchVisited ==
  /\ pc = "reorg" =>
       /\ p1.stats.total_chunks = p1.total_chunks
       /\ Sum1(p1.stats) = Len(p1.visited)
       /\ Sum1(p1.stats) = p1.chunk_id
       /\ p1.chunk_id = p1.total_chunks => Sum1(p1.stats) = p1.stats.total_chunks
  /\ pc = "delta" =>
       /\ p2.stats.total_chunks = Len(p2.chunk_dirs)
       /\ Sum2(p2.stats) = p2.idx - 1
       /\ ConvertDone => Sum2(p2.stats) = p2.stats.total_chunks

\* one loop iteration of either phase adds one to exactly one counter
IterationCountsOnce ==
  /\ (pc = "reorg" /\ pc' = "reorg" /\ p1' # p1) =>
       OneCounterGrew(p1.stats, p1'.stats, {"created", "skipped", "failed"})
  /\ (pc = "delta" /\ pc' = "delta" /\ p2' # p2) =>
       OneCounterGrew(p2.stats, p2'.stats, {"processed", "skipped", "failed"})

\* C27: in a run of reorganize or convert every shard visited adds one to
\* exactly one of the three outcome counters and no counter decreases; after
\* each iteration the counters sum to the number of shards visited so far,
\* and when the loop is exhausted they sum to total_chunks
C27_CountersPartitionShards ==
  []CountersMatchVisited /\ [][IterationCountsOnce]_vars

\* a convert call over two shards that ended with one processed, one failed
C27_Witness ==
  /\ ConvertDone
  /\ Len(p2.chunk_dirs) = 2
  /\ p2.stats.processed = 1
  /\ p2.stats.failed = 1

\* before the first shard of a convert call the snapshot describes the table
SnapshotTaken ==
  (pc = "delta" /\ p2.idx = 1) =>
    /\ p2.table_state.exists = validate_delta_table(table)
    /\ p2.table_state.existing_partitions =
         IF validate_delta_table(table) THEN get_delta_partitions(table) ELSE {}

\* one iteration of the convert loop leaves the snapshot alone, decides the
\* skip and the write mode from the snapshot, and issues at most one write,
\* for a shard no earlier iteration of the call has visited
SnapshotKept ==
  (pc = "delta" /\ pc' = "delta" /\ p2' # p2) =>
    LET chunk_name == p2.chunk_dirs[p2.idx]
        in_snapshot == /\ p2.table_state.exists
                       /\ extract_partition_id(chunk_name)
                            \in p2.table_state.existing_partitions
    IN /\ p2'.table_state = p2.table_state
       /\ p2'.last.chunk = chunk_name
       /\ \A i \in 1..(p2.idx - 1) : p2.chunk_dirs[i] # chunk_name
       /\ (p2'.last.key = "skipped") <=>
            (organized[chunk_name].kind # "missing" /\ ~p2.force /\ in_snapshot)
       /\ IF p2'.last.called_write
          THEN /\ ~(~p2.force /\ in_snapshot)
               /\ p2'.writes = Append(p2.writes,
                    IF p2.writes = <<>> /\ (~p2.table_state.exists \/ p2.force)
                    THEN "overwrite" ELSE "append")
          ELSE p2'.writes = p2.writes /\ table' = table

\* C28: the table state convert uses (exists flag, existing partitions) is
\* taken once before the first shard and no iteration changes it; skip
\* decisions and the write mode follow that snapshot even after the table
\* has changed, and each shard identifier is written at most once per call
C28_SnapshotTakenOnce ==
  []SnapshotTaken /\ [][SnapshotKept]_vars

\* a call that found no table has written two shards: the table now exists
\* with both partitions while the snapshot still says it does not
C28_Witness ==
  /\ ConvertDone
  /\ ~p2.force
  /\ ~p2.table_state.exists
  /\ p2.writes = <<"overwrite", "append">>
  /\ p2.stats.processed = 2
  /\ validate_delta_table(table)
  /\ Cardinality(get_delta_partitions(table)) = 2

\* a convert call without force that follows, over the same chunk files, a
\* call that processed some shards and failed others
ResumingRun == pc = "delta" /\ ~p2.force /\ p2.resumes = "returned_mixed"

\* a convert call without force that follows, over the same chunk files, a
\* resuming call that had no failure
ThirdRun == pc = "delta" /\ ~p2.force /\ p2.resumes = "returned_resumed"

\* a call that skipped every shard it has visited and issued no write
SkippedAll == p2.writes = <<>> /\ p2.stats.skipped = p2.idx - 1

\* C26 as stated: the resuming call skips every shard whose partition the
\* table already has, writes with append only and only shards missing from
\* the table; the call after a resuming call without failures skips every
\* shard and writes nothing
C26_Original ==
  /\ (ResumingRun /\ Iterated2) =>
       /\ InSnapshot(p2.last.chunk) => p2.last.key = "skipped"
       /\ p2.last.called_write => ~InSnapshot(p2.last.chunk)
       /\ \A i \in 1..Len(p2.writes) : p2.writes[i] = "append"
  /\ ThirdRun => SkippedAll

\* what the resuming call and the call after it have done so far
ResumedSoFar ==
  /\ ResumingRun => p2.table_state.exists
  /\ (ResumingRun /\ Iterated2) =>
       /\ (InSnapshot(p2.last.chunk) /\ p2.last.file.kind # "missing")
            => p2.last.key = "skipped"
       /\ (InSnapshot(p2.last.chunk) /\ p2.last.file.kind = "missing")
            => p2.last.key = "failed"
       /\ InSnapshot(p2.last.chunk) => ~p2.last.called_write
       /\ p2.last.called_write =>
            extract_partition_id(p2.last.chunk)
              \notin p2.table_state.existing_partitions
       /\ \A i \in 1..Len(p2.writes) : p2.writes[i] = "append"
  /\ (ResumingRun /\ ConvertDone /\ p2.stats.failed = 0) =>
       /\ validate_delta_table(table)
       /\ \A i \in 1..Len(p2.chunk_dirs) :
            /\ organized[p2.chunk_dirs[i]].kind # "missing"
            /\ extract_partition_id(p2.chunk_dirs[i])
                 \in get_delta_partitions(table)
  /\ ThirdRun => SkippedAll

\* an iteration of the resuming call, or of the call after it, leaves the
\* rows of every partition of the snapshot as they were
SnapshotRowsKept ==
  ((ResumingRun \/ ThirdRun) /\ pc' = "delta") =>
    \A id \in p2.table_state.existing_partitions :
      PartitionRows(table', id) = PartitionRows(table, id)

\* C26: a convert call without force that follows a call which processed
\* some shards and failed others, over the same chunk files, skips every
\* shard in the table snapshot whose data file exists and counts one whose
\* data file is missing as failed; it writes with append only, only shards
\* missing from the table, and leaves the rows of existing partitions
\* unchanged; after such a call without failures the next call skips every
\* shard and issues no write
C26_Resumable ==
  []ResumedSoFar /\ [][SnapshotRowsKept]_vars

\* the third call has skipped both shards, one written by the first call,
\* the other by the resuming call
C26_Witness ==
  /\ ThirdRun
  /\ ConvertDone
  /\ Len(p2.chunk_dirs) = 2
  /\ p2.stats.skipped = 2
  /\ p2.writes = <<>>

====
